---- MODULE Spec2Model ----
(***************************************************************************)
(* robotlb: a Kubernetes controller that materialises Services of type     *)
(* LoadBalancer as Hetzner Cloud (HCloud) load balancers.                  *)
(*                                                                         *)
(* The model follows one Service through reconcile_service (src/main.rs)   *)
(* and LoadBalancer::reconcile / cleanup (src/lb.rs).  Every await of the  *)
(* code (an HCloud or Kubernetes API call) is one action; the local        *)
(* computation between two awaits is part of the action that precedes it.  *)
(* HCloud and the Kubernetes API server are modelled by their state and    *)
(* by what their calls do to it.                                           *)
(***************************************************************************)
EXTENDS Integers, Sequences, FiniteSets, TLC

\* ---------------------------------------------------------------- bounds
\* listen ports are 1..MaxPort
MaxPort == 2
\* node (target) IPs are 1..MaxIP
MaxIP == 2
\* API requests that fail per behaviour
MaxFailures == 1

\* ------------------------------------------------------ program constants
DEFAULT_LB_RETRIES == 3
DEFAULT_LB_TIMEOUT == 10
DEFAULT_LB_INTERVAL == 15

DEFAULT_LB_LOCATION == "hel1"
DEFAULT_LB_ALGORITHM == "least-connections"
DEFAULT_LB_BALANCER_TYPE == "lb11"
FINALIZER_NAME == "lb-tracker/finalizer"

\* ----------------------------------------------------------------- values
\* Option<T>: None is the empty sequence, Some(x) the one-element sequence.
None == << >>
Some(x) == << x >>
IsSome(o) == o # << >>
Unwrap(o) == o[1]

Ports == 1..MaxPort
IPs == 1..MaxIP
\* the nodePort Kubernetes allocated for a Service port
NodePortOf(p) == 30000 + p
NodePorts == {NodePortOf(p) : p \in Ports}
Algorithms == {"round-robin", "least-connections"}
BalancerTypes == {"lb11", "lb21"}
\* HCloud private networks of the project: id and name; two of them have the
\* same name
Networks ==
  {[id |-> 1, name |-> "net-a"], [id |-> 2, name |-> "net-b"], [id |-> 3, name |-> "net-b"]}
NetworkIds == {n.id : n \in Networks}
PrivateIPs == {"10.0.5.7", "10.0.5.8"}
LbName == "svc1"
LbIds == 1..2

Range(s) == {s[i] : i \in DOMAIN s}

RECURSIVE SetToSeq(_)
\* the elements of a set of integers, ascending
SetToSeq(S) ==
  IF S = {} THEN << >>
  ELSE LET m == CHOOSE x \in S : \A y \in S : x <= y
       IN << m >> \o SetToSeq(S \ {m})

\* ------------------------------------------------------------------ HCloud
\* A load balancer as HCloud reports it (hcloud::models::LoadBalancer), the
\* fields the controller reads:
\*   id, name, algorithm, load_balancer_type,
\*   private_net : sequence of [network : Option<id>, ip : Option<ip>]
\*   services    : sequence of LoadBalancerService, listen ports distinct
\*   targets     : sequence of [type, ip : Option<IP>]; a target of type
\*                 "server" carries no ip
\*   public_net  : [ipv4 : Option, ipv6 : Option]
\* HCloud reports the network id of every attachment, keeps at most one
\* attachment per network, one service per listen port and one target per IP.

\* the service add_service sends for (listen_port -> destination_port)
LoadBalancerService(listen_port, destination_port, proxy_mode, check_interval, retries, timeout) ==
  [listen_port |-> listen_port,
   destination_port |-> destination_port,
   proxyprotocol |-> proxy_mode,
   http |-> FALSE,
   health_check |-> [protocol |-> "tcp", port |-> destination_port,
                     interval |-> check_interval, retries |-> retries,
                     timeout |-> timeout]]

IpTarget(ip) == [type |-> "ip", ip |-> Some(ip)]
ServerTarget == [type |-> "server", ip |-> None]

HasLb(L, id) == \E l \in L : l.id = id
Lb(L, id) == CHOOSE l \in L : l.id = id
PutLb(L, new) == {l \in L : l.id # new.id} \cup {new}
FreshId(L) == CHOOSE id \in LbIds : ~HasLb(L, id) /\ \A j \in LbIds : ~HasLb(L, j) => id <= j

\* list_load_balancers with the name filter
ListLoadBalancers(L, name) == {l \in L : l.name = name}
\* list_networks with the name filter
ListNetworks(name) == {n \in Networks : n.name = name}

ServicePorts(l) == {l.services[i].listen_port : i \in DOMAIN l.services}
TargetIps(l) == {Unwrap(l.targets[i].ip) : i \in {j \in DOMAIN l.targets : IsSome(l.targets[j].ip)}}
AttachedNetworks(l) == {Unwrap(l.private_net[i].network) : i \in {j \in DOMAIN l.private_net : IsSome(l.private_net[j].network)}}

\* HCloud accepts the call c in state L (otherwise it answers with an error
\* and changes nothing)
Accepts(L, c) ==
  CASE c.op = "create_load_balancer" -> \E id \in LbIds : ~HasLb(L, id)
    [] c.op = "delete_load_balancer" -> HasLb(L, c.id)
    [] c.op = "change_algorithm" -> HasLb(L, c.id)
    [] c.op = "change_type" -> HasLb(L, c.id)
    [] c.op = "attach" -> HasLb(L, c.id) /\ c.network \notin AttachedNetworks(Lb(L, c.id))
    [] c.op = "detach" -> HasLb(L, c.id) /\ c.network \in AttachedNetworks(Lb(L, c.id))
    [] c.op = "add_service" -> HasLb(L, c.id) /\ c.service.listen_port \notin ServicePorts(Lb(L, c.id))
    [] c.op = "update_service" -> HasLb(L, c.id) /\ c.service.listen_port \in ServicePorts(Lb(L, c.id))
    [] c.op = "delete_service" -> HasLb(L, c.id) /\ c.listen_port \in ServicePorts(Lb(L, c.id))
    [] c.op = "add_target" -> HasLb(L, c.id) /\ c.target \notin Range(Lb(L, c.id).targets)
    [] c.op = "remove_target" -> HasLb(L, c.id) /\ c.target \in Range(Lb(L, c.id).targets)

\* the HCloud state after the accepted call c
Apply(L, c) ==
  CASE c.op = "create_load_balancer" ->
         L \cup {[id |-> FreshId(L), name |-> c.name, algorithm |-> c.algorithm,
                  load_balancer_type |-> c.load_balancer_type, location |-> c.location,
                  private_net |-> << >>, services |-> << >>, targets |-> << >>,
                  public_net |-> [ipv4 |-> Some("v4"), ipv6 |-> Some("v6")]]}
    [] c.op = "delete_load_balancer" -> {l \in L : l.id # c.id}
    [] c.op = "change_algorithm" -> PutLb(L, [Lb(L, c.id) EXCEPT !.algorithm = c.algorithm])
    [] c.op = "change_type" -> PutLb(L, [Lb(L, c.id) EXCEPT !.load_balancer_type = c.load_balancer_type])
    [] c.op = "attach" ->
         PutLb(L, [Lb(L, c.id) EXCEPT !.private_net =
                     Append(@, [network |-> Some(c.network), ip |-> Some(c.ip)])])
    [] c.op = "detach" ->
         PutLb(L, [Lb(L, c.id) EXCEPT !.private_net =
                     SelectSeq(@, LAMBDA e : e.network # Some(c.network))])
    [] c.op = "add_service" -> PutLb(L, [Lb(L, c.id) EXCEPT !.services = Append(@, c.service)])
    [] c.op = "update_service" ->
         PutLb(L, [Lb(L, c.id) EXCEPT !.services =
                     [i \in DOMAIN @ |-> IF @[i].listen_port = c.service.listen_port
                                         THEN c.service ELSE @[i]]])
    [] c.op = "delete_service" ->
         PutLb(L, [Lb(L, c.id) EXCEPT !.services =
                     SelectSeq(@, LAMBDA s : s.listen_port # c.listen_port)])
    [] c.op = "add_target" -> PutLb(L, [Lb(L, c.id) EXCEPT !.targets = Append(@, c.target)])
    [] c.op = "remove_target" ->
         PutLb(L, [Lb(L, c.id) EXCEPT !.targets = SelectSeq(@, LAMBDA t : t # c.target)])

\* ------------------------------------------------------- Kubernetes objects
\* OperatorConfig as the operator is started by default (src/config.rs)
Config ==
  [default_network |-> None,
   dynamic_node_selector |-> TRUE,
   default_lb_retries |-> DEFAULT_LB_RETRIES,
   default_lb_timeout |-> DEFAULT_LB_TIMEOUT,
   default_lb_interval |-> DEFAULT_LB_INTERVAL,
   default_lb_location |-> DEFAULT_LB_LOCATION,
   default_balancer_type |-> DEFAULT_LB_BALANCER_TYPE,
   default_lb_algorithm |-> DEFAULT_LB_ALGORITHM,
   default_lb_proxy_mode_enabled |-> FALSE,
   ipv6_ingress |-> FALSE]

\* context.config: the OperatorConfig the operator was started with
VARIABLE config

\* node i of the cluster: one ExternalIP (i) and one InternalIP (100 + i)
InternalIpOf(i) == 100 + i
Node(i) ==
  [name |-> i,
   status |-> Some([addresses |-> Some(<< [type |-> "ExternalIP", address |-> i],
                                          [type |-> "InternalIP", address |-> InternalIpOf(i)],
                                          [type |-> "Hostname", address |-> 0] >>)])]
\* the nodes as the node list returns them
ClusterNodes == [i \in 1..MaxIP |-> Node(i)]
TargetAddresses == IPs \cup {InternalIpOf(i) : i \in IPs}

\* spec.selector of the Services: a map, given as its set of (key, value)
AppWeb == {<< "app", "web" >>}
\* the pods of the namespace of the Service: its own pods, labelled app=web,
\* on the nodes `nodes`, and a pod of another workload on the last node
Pods(nodes) ==
  {[labels |-> AppWeb, node_name |-> Some(i)] : i \in nodes}
  \cup {[labels |-> {<< "app", "db" >>}, node_name |-> Some(MaxIP)]}
\* get_nodes_dynamically: the label selector of the pod list, one key=value
\* requirement for every entry of the selector map
LabelSelector(pod_selector) == {[key |-> e[1], value |-> e[2]] : e \in pod_selector}
\* the pod list of the API server: the pods that meet every requirement of the
\* label selector, so every pod when it has none
ListPodsOf(pods, label_selector) ==
  {pod \in pods : \A r \in label_selector : << r.key, r.value >> \in pod.labels}
\* get_nodes_dynamically: the node names of the pods listed
TargetNodes(s, nodes) ==
  {Unwrap(pod.node_name) :
     pod \in {q \in ListPodsOf(Pods(nodes), LabelSelector(Unwrap(s.selector))) :
                IsSome(q.node_name)}}

\* spec.ports of a Service that exposes the listen ports S
ServicePortsOf(S) ==
  LET ps == SetToSeq(S)
  IN [j \in DOMAIN ps |-> [port |-> ps[j], node_port |-> Some(NodePortOf(ps[j])),
                           protocol |-> Some("TCP")]]

\* ------------------------------------------------------------ LoadBalancer
\* LBAlgorithm::from_str: the algorithm, or the error UnknownLBAlgorithm
LBAlgorithmFromStr(s) ==
  IF s \in {"round-robin", "least-connections"} THEN [ok |-> TRUE, v |-> s]
  ELSE [ok |-> FALSE, v |-> "UnknownLBAlgorithm"]

\* annotation value, else the default
AnnOr(ann, key, default) == IF IsSome(ann[key]) THEN Unwrap(ann[key]) ELSE default

\* i32::from_str on a string given as the sequence of its characters: an
\* optional sign and at least one decimal digit, the value within i32
Digits == << "0", "1", "2", "3", "4", "5", "6", "7", "8", "9" >>
DigitValue(c) == (CHOOSE d \in DOMAIN Digits : Digits[d] = c) - 1
RECURSIVE DecimalValue(_, _)
DecimalValue(str, acc) ==
  IF str = << >> THEN acc ELSE DecimalValue(Tail(str), 10 * acc + DigitValue(Head(str)))
I32FromStr(str) ==
  LET signed == str # << >> /\ Head(str) \in {"+", "-"}
      digits == IF signed THEN Tail(str) ELSE str
      value == IF signed /\ Head(str) = "-" THEN 0 - DecimalValue(digits, 0)
               ELSE DecimalValue(digits, 0)
  IN IF digits = << >> \/ \E j \in DOMAIN digits : digits[j] \notin Range(Digits)
     THEN [ok |-> FALSE, v |-> "PaseIntError"]
     ELSE IF value > 2147483647 \/ value < (0 - 2147483647) - 1
     THEN [ok |-> FALSE, v |-> "PaseIntError"]
     ELSE [ok |-> TRUE, v |-> value]

\* bool::from_str
BoolFromStr(str) ==
  IF str = "true" THEN [ok |-> TRUE, v |-> TRUE]
  ELSE IF str = "false" THEN [ok |-> TRUE, v |-> FALSE]
  ELSE [ok |-> FALSE, v |-> "PaseBoolError"]

\* an integer annotation that falls back to the default when it does not parse
I32OrDefault(ann, key, default) ==
  IF IsSome(ann[key]) /\ I32FromStr(Unwrap(ann[key])).ok
  THEN I32FromStr(Unwrap(ann[key])) ELSE [ok |-> TRUE, v |-> default]

\* .map(i32::from_str).transpose()?.unwrap_or(default) on an annotation
I32Or(ann, key, default) ==
  IF IsSome(ann[key]) THEN I32FromStr(Unwrap(ann[key])) ELSE [ok |-> TRUE, v |-> default]
\* .map(bool::from_str).transpose()?.unwrap_or(default) on an annotation
BoolOr(ann, key, default) ==
  IF IsSome(ann[key]) THEN BoolFromStr(Unwrap(ann[key])) ELSE [ok |-> TRUE, v |-> default]

\* LoadBalancer::try_from_svc: the desired load balancer of a Service, with
\* no services and no targets yet, or the first parse error
TryFromSvc(s) ==
  LET retries == I32Or(s.annotations, "lb-retries", config.default_lb_retries)
      timeout == I32Or(s.annotations, "lb-timeout", config.default_lb_timeout)
      check_interval == I32Or(s.annotations, "lb-check-interval", config.default_lb_interval)
      proxy_mode == BoolOr(s.annotations, "lb-proxy-mode", config.default_lb_proxy_mode_enabled)
      algorithm == LBAlgorithmFromStr(AnnOr(s.annotations, "lb-algorithm", config.default_lb_algorithm))
  IN IF ~retries.ok THEN [ok |-> FALSE, err |-> retries.v]
     ELSE IF ~timeout.ok THEN [ok |-> FALSE, err |-> timeout.v]
     ELSE IF ~check_interval.ok THEN [ok |-> FALSE, err |-> check_interval.v]
     ELSE IF ~proxy_mode.ok THEN [ok |-> FALSE, err |-> proxy_mode.v]
     ELSE IF ~algorithm.ok THEN [ok |-> FALSE, err |-> algorithm.v]
     ELSE [ok |-> TRUE,
           v |-> [name |-> AnnOr(s.annotations, "balancer", s.name),
                  services |-> << >>,
                  targets |-> << >>,
                  private_ip |-> s.annotations["lb-private-ip"],
                  check_interval |-> check_interval.v,
                  timeout |-> timeout.v,
                  retries |-> retries.v,
                  proxy_mode |-> proxy_mode.v,
                  location |-> AnnOr(s.annotations, "lb-location", config.default_lb_location),
                  balancer_type |-> AnnOr(s.annotations, "balancer-type", config.default_balancer_type),
                  algorithm |-> algorithm.v,
                  network_name |-> IF IsSome(s.annotations["lb-network"])
                                   THEN s.annotations["lb-network"]
                                   ELSE config.default_network]]

\* LoadBalancer::add_service: services is a map, listen_port -> target_port
AddService(l, listen_port, target_port) ==
  [l EXCEPT !.services =
     [p \in DOMAIN @ \cup {listen_port} |-> IF p = listen_port THEN target_port ELSE @[p]]]

\* LoadBalancer::add_target: targets is a list
AddTarget(l, ip) == [l EXCEPT !.targets = Append(@, ip)]

RECURSIVE AddNodeTargets(_, _, _, _)
\* reconcile_load_balancer, the loop over the resolved nodes: one target for
\* every address of type node_ip_type; a node without status or without
\* addresses is passed over
AddNodeTargets(l, nodes, n, node_ip_type) ==
  IF n > Len(nodes) THEN l
  ELSE IF nodes[n].status = None THEN AddNodeTargets(l, nodes, n + 1, node_ip_type)
  ELSE IF Unwrap(nodes[n].status).addresses = None
       THEN AddNodeTargets(l, nodes, n + 1, node_ip_type)
  ELSE LET addrs == SelectSeq(Unwrap(Unwrap(nodes[n].status).addresses),
                              LAMBDA a : a.type = node_ip_type)
           RECURSIVE Push(_, _)
           Push(acc, j) == IF j > Len(addrs) THEN acc
                           ELSE Push(AddTarget(acc, addrs[j].address), j + 1)
       IN AddNodeTargets(Push(l, 1), nodes, n + 1, node_ip_type)

RECURSIVE AddPortServicesAnyProtocol(_, _, _)
\* a loop over spec.ports that takes the ports of every protocol
AddPortServicesAnyProtocol(l, ports, n) ==
  IF n > Len(ports) THEN l
  ELSE LET port == ports[n]
       IN IF ~IsSome(port.node_port) THEN AddPortServicesAnyProtocol(l, ports, n + 1)
          ELSE AddPortServicesAnyProtocol(AddService(l, port.port, Unwrap(port.node_port)),
                                          ports, n + 1)

RECURSIVE AddPortServices(_, _, _)
\* reconcile_load_balancer, the loop over spec.ports: only TCP ports that
\* have a nodePort become services
AddPortServices(l, ports, n) ==
  IF n > Len(ports) THEN l
  ELSE LET port == ports[n]
           protocol == IF IsSome(port.protocol) THEN Unwrap(port.protocol) ELSE "TCP"
       IN IF protocol # "TCP" THEN AddPortServices(l, ports, n + 1)
          ELSE IF ~IsSome(port.node_port) THEN AddPortServices(l, ports, n + 1)
          ELSE AddPortServices(AddService(l, port.port, Unwrap(port.node_port)), ports, n + 1)

\* an IP type that does not look at the network of the load balancer
NodeIpTypeExternal(l) == "ExternalIP"

\* the IP type reconcile_load_balancer takes the targets from
NodeIpType(l) == IF l.network_name = None THEN "ExternalIP" ELSE "InternalIP"

\* ------------------------------------------------- the reconciliation task
\* The position of the in-flight reconcile_service future: pc names the await
\* it is suspended at ("idle": no pass in flight), the other fields are its
\* locals.  Three fields record the current (or last) pass: branch is the
\* branch of reconcile_service it took ("cleanup" or "reconcile"), lb_ok
\* whether LoadBalancer::reconcile returned Ok in it, ret what it returned.
Idle ==
  [pc |-> "idle", lb |-> None, hcloud_balancer |-> None, i |-> 0, pending |-> {},
   desired_network |-> None, contain_desired_network |-> FALSE,
   branch |-> "none", ret |-> "none", lb_ok |-> FALSE]

\* the pass returns r: the future and its locals are dropped
Return(t, r) ==
  [Idle EXCEPT !.ret = r, !.lb = t.lb, !.lb_ok = t.lb_ok, !.branch = t.branch]

\* the task suspends at the await pc
Await(t, pc) == [t EXCEPT !.pc = pc]

Min(S) == CHOOSE x \in S : \A y \in S : x <= y

\* an ingress list that takes the IPv6 address whatever the configuration
IngressAlwaysIpv6(hcloud_lb) ==
  (IF IsSome(hcloud_lb.public_net.ipv4)
   THEN << [ip |-> Unwrap(hcloud_lb.public_net.ipv4), ip_mode |-> "VIP"] >> ELSE << >>)
  \o (IF IsSome(hcloud_lb.public_net.ipv6)
      THEN << [ip |-> Unwrap(hcloud_lb.public_net.ipv6), ip_mode |-> "VIP"] >> ELSE << >>)

\* reconcile_load_balancer after lb.reconcile() returned: the ingress list
Ingress(hcloud_lb) ==
  (IF IsSome(hcloud_lb.public_net.ipv4)
   THEN << [ip |-> Unwrap(hcloud_lb.public_net.ipv4), ip_mode |-> "VIP"] >> ELSE << >>)
  \o (IF config.ipv6_ingress /\ IsSome(hcloud_lb.public_net.ipv6)
      THEN << [ip |-> Unwrap(hcloud_lb.public_net.ipv6), ip_mode |-> "VIP"] >> ELSE << >>)

\* a pass that waits for the next change when it has no ingress to publish
AfterReconcileAwaitChange(t) ==
  IF Ingress(Unwrap(t.hcloud_balancer)) # << >>
  THEN [t EXCEPT !.pc = "patch_status", !.lb_ok = TRUE]
  ELSE Return([t EXCEPT !.lb_ok = TRUE], "await_change")

\* LoadBalancer::reconcile returned Ok: patch the status when there is an
\* ingress, then requeue
AfterReconcile(t) ==
  IF Ingress(Unwrap(t.hcloud_balancer)) # << >>
  THEN [t EXCEPT !.pc = "patch_status", !.lb_ok = TRUE]
  ELSE Return([t EXCEPT !.lb_ok = TRUE], "requeue")

\* a second loop that takes every desired ip for missing
TargetMissingAlways(l, b, k) == k \in DOMAIN l.targets

\* reconcile_targets, second loop: the desired ip at position k is missing
\* among the observed targets
TargetMissing(l, b, k) ==
  ~\E j \in DOMAIN b.targets : b.targets[j].ip = Some(l.targets[k])

\* reconcile_targets, second loop from position k of self.targets
ReconcileTargetsAdd(t, k) ==
  LET l == Unwrap(t.lb)
      b == Unwrap(t.hcloud_balancer)
      todo == {j \in k..Len(l.targets) : TargetMissing(l, b, j)}
  IN IF todo = {} THEN AfterReconcile(t)
     ELSE [t EXCEPT !.pc = "add_target", !.i = Min(todo)]

\* a first loop that removes every observed target that carries an ip
TargetUnwantedAll(l, target) == IsSome(target.ip)

\* a first loop that removes no target
TargetUnwantedNever(l, target) == FALSE

\* reconcile_targets, first loop: the observed target is removed
TargetUnwanted(l, target) ==
  IsSome(target.ip) /\ Unwrap(target.ip) \notin Range(l.targets)

\* reconcile_targets, first loop from position i of hcloud_balancer.targets
ReconcileTargets(t, i) ==
  LET l == Unwrap(t.lb)
      b == Unwrap(t.hcloud_balancer)
      todo == {j \in i..Len(b.targets) : TargetUnwanted(l, b.targets[j])}
  IN IF todo = {} THEN ReconcileTargetsAdd(t, 1)
     ELSE [t EXCEPT !.pc = "remove_target", !.i = Min(todo)]

\* reconcile_services, second loop: the add_service calls still to issue;
\* self.services is a HashMap, so they are issued in any order
ReconcileServicesAdd(t, pending) ==
  IF pending = {} THEN ReconcileTargets(t, 1)
  ELSE [t EXCEPT !.pc = "add_service", !.pending = pending]

\* a second loop that adds every desired service
MissingServicesAll(l, b) == DOMAIN l.services

\* the desired listen ports no observed service listens on
MissingServices(l, b) ==
  {p \in DOMAIN l.services : ~\E j \in DOMAIN b.services : b.services[j].listen_port = p}

\* a comparison that leaves out the http block and the health check protocol
ServiceMatchesNoHttp(l, service) ==
  LET destination_port == l.services[service.listen_port]
  IN /\ service.destination_port = destination_port
     /\ service.health_check.port = destination_port
     /\ service.health_check.interval = l.check_interval
     /\ service.health_check.retries = l.retries
     /\ service.health_check.timeout = l.timeout
     /\ service.proxyprotocol = l.proxy_mode

\* a comparison that leaves out the interval of the health check
ServiceMatchesNoInterval(l, service) ==
  LET destination_port == l.services[service.listen_port]
  IN /\ service.destination_port = destination_port
     /\ service.health_check.port = destination_port
     /\ service.health_check.retries = l.retries
     /\ service.health_check.timeout = l.timeout
     /\ service.proxyprotocol = l.proxy_mode
     /\ ~service.http
     /\ service.health_check.protocol = "tcp"

\* a comparison that takes the retries for the timeout of the health check
ServiceMatchesSwapped(l, service) ==
  LET destination_port == l.services[service.listen_port]
  IN /\ service.destination_port = destination_port
     /\ service.health_check.port = destination_port
     /\ service.health_check.interval = l.check_interval
     /\ service.health_check.retries = l.timeout
     /\ service.health_check.timeout = l.retries
     /\ service.proxyprotocol = l.proxy_mode
     /\ ~service.http
     /\ service.health_check.protocol = "tcp"

\* reconcile_services: the observed service has the desired configuration
ServiceMatches(l, service) ==
  LET destination_port == l.services[service.listen_port]
  IN /\ service.destination_port = destination_port
     /\ service.health_check.port = destination_port
     /\ service.health_check.interval = l.check_interval
     /\ service.health_check.retries = l.retries
     /\ service.health_check.timeout = l.timeout
     /\ service.proxyprotocol = l.proxy_mode
     /\ ~service.http
     /\ service.health_check.protocol = "tcp"

\* a first loop that updates the observed services but deletes none
ServiceDecisionNoDelete(l, service) ==
  IF service.listen_port \in DOMAIN l.services /\ ~ServiceMatches(l, service)
  THEN "update_service"
  ELSE "continue"

\* reconcile_services, first loop: what is done with an observed service
ServiceDecision(l, service) ==
  IF service.listen_port \in DOMAIN l.services
  THEN (IF ServiceMatches(l, service) THEN "continue" ELSE "update_service")
  ELSE "delete_service"

\* reconcile_services, first loop from position i of hcloud_balancer.services
ReconcileServices(t, i) ==
  LET l == Unwrap(t.lb)
      b == Unwrap(t.hcloud_balancer)
      todo == {j \in i..Len(b.services) : ServiceDecision(l, b.services[j]) # "continue"}
  IN IF todo = {} THEN ReconcileServicesAdd(t, MissingServices(l, b))
     ELSE [t EXCEPT !.pc = ServiceDecision(l, b.services[Min(todo)]), !.i = Min(todo)]

\* a reconcile_network that attaches whenever a network is desired
ReconcileNetworkAttachAlways(t) ==
  IF IsSome(t.desired_network) THEN Await(t, "attach") ELSE ReconcileServices(t, 1)

\* reconcile_network after the loop: attach when no attachment was kept
ReconcileNetworkAttach(t) ==
  IF ~t.contain_desired_network
  THEN (IF IsSome(t.desired_network) THEN Await(t, "attach") ELSE ReconcileServices(t, 1))
  ELSE ReconcileServices(t, 1)

\* a loop that keeps an attachment to the desired network whatever its ip
NetworkDecisionAnyIp(l, desired_network, private_net) ==
  IF ~IsSome(private_net.network) THEN "continue"
  ELSE IF desired_network = Some(Unwrap(private_net.network)) THEN "keep"
  ELSE "detach"

\* a loop that detaches every observed attachment
NetworkDecisionDetachAll(l, desired_network, private_net) ==
  IF ~IsSome(private_net.network) THEN "continue" ELSE "detach"

\* reconcile_network, the loop body: what is done with an observed attachment
NetworkDecision(l, desired_network, private_net) ==
  IF ~IsSome(private_net.network) THEN "continue"
  ELSE IF desired_network = Some(Unwrap(private_net.network))
       THEN (IF IsSome(l.private_ip)
             THEN (IF private_net.ip = l.private_ip THEN "keep" ELSE "detach")
             ELSE "keep")
       ELSE "detach"

\* reconcile_network, the loop from position i of hcloud_balancer.private_net
ReconcileNetworkLoop(t, i) ==
  LET l == Unwrap(t.lb)
      b == Unwrap(t.hcloud_balancer)
      D(j) == NetworkDecision(l, t.desired_network, b.private_net[j])
      todo == {j \in i..Len(b.private_net) : D(j) = "detach"}
      upto == IF todo = {} THEN Len(b.private_net) ELSE Min(todo) - 1
      kept == t.contain_desired_network \/ \E j \in i..upto : D(j) = "keep"
  IN IF todo = {} THEN ReconcileNetworkAttach([t EXCEPT !.contain_desired_network = kept])
     ELSE [t EXCEPT !.pc = "detach", !.i = Min(todo), !.contain_desired_network = kept]

\* a get_network that takes any network of the name, and none when there is
\* no such network
GetNetworkAny(l) ==
  IF ~IsSome(l.network_name) THEN [ok |-> TRUE, v |-> None]
  ELSE LET networks == ListNetworks(Unwrap(l.network_name))
       IN IF networks = {} THEN [ok |-> TRUE, v |-> None]
          ELSE [ok |-> TRUE, v |-> Some(CHOOSE n \in networks : TRUE)]

\* get_network answered: Ok(None), Ok(the network) or an error
GetNetwork(l) ==
  IF ~IsSome(l.network_name) THEN [ok |-> TRUE, v |-> None]
  ELSE LET networks == ListNetworks(Unwrap(l.network_name))
       IN IF Cardinality(networks) > 1 THEN [ok |-> FALSE, v |-> "HCloudError"]
          ELSE IF networks = {} THEN [ok |-> FALSE, v |-> "HCloudError"]
          ELSE [ok |-> TRUE, v |-> Some(CHOOSE n \in networks : TRUE)]

\* reconcile_network from the answer of get_network on
ReconcileNetworkGot(t) ==
  LET got == GetNetwork(Unwrap(t.lb))
  IN IF ~got.ok THEN Return(t, got.v)
     ELSE ReconcileNetworkLoop(
            [t EXCEPT !.desired_network = IF IsSome(got.v) THEN Some(Unwrap(got.v).id) ELSE None,
                      !.contain_desired_network = FALSE], 1)

\* reconcile_network: get_network lists the networks only for a network name
ReconcileNetwork(t) ==
  LET l == Unwrap(t.lb)
      b == Unwrap(t.hcloud_balancer)
  IN IF ~IsSome(l.network_name) /\ b.private_net = << >> THEN ReconcileServices(t, 1)
     ELSE IF IsSome(l.network_name) THEN Await(t, "list_networks")
     ELSE ReconcileNetworkGot(t)

\* reconcile_lb_type
ReconcileLbType(t) ==
  IF Unwrap(t.hcloud_balancer).load_balancer_type = Unwrap(t.lb).balancer_type
  THEN ReconcileNetwork(t)
  ELSE Await(t, "change_type")

\* a reconcile_algorithm that leaves the algorithm as it is
ReconcileAlgorithmNever(t) == ReconcileLbType(t)

\* a reconcile_algorithm that sets the algorithm whatever the observed one
ReconcileAlgorithmAlways(t) == Await(t, "change_algorithm")

\* reconcile_algorithm
ReconcileAlgorithm(t) ==
  IF Unwrap(t.hcloud_balancer).algorithm = Unwrap(t.lb).algorithm
  THEN ReconcileLbType(t)
  ELSE Await(t, "change_algorithm")

\* a get_hcloud_lb that takes one of the load balancers found
GetHcloudLbFirst(found) ==
  IF found = {} THEN [ok |-> TRUE, v |-> None]
  ELSE [ok |-> TRUE, v |-> Some(CHOOSE b \in found : TRUE)]

\* get_hcloud_lb answered with the load balancers `found`
GetHcloudLb(found) ==
  IF Cardinality(found) > 1 THEN [ok |-> FALSE, v |-> "SkipService"]
  ELSE IF found = {} THEN [ok |-> TRUE, v |-> None]
  ELSE [ok |-> TRUE, v |-> Some(CHOOSE b \in found : TRUE)]

\* get_or_create_hcloud_lb from the answer of get_hcloud_lb on
GetOrCreateHcloudLb(t, found) ==
  LET got == GetHcloudLb(found)
  IN IF ~got.ok THEN Return(t, got.v)
     ELSE IF IsSome(got.v) THEN ReconcileAlgorithm([t EXCEPT !.hcloud_balancer = got.v])
     ELSE Await(t, "create_load_balancer")

\* cleanup, the loop over the observed targets from position i
CleanupTargets(t, i) ==
  LET b == Unwrap(t.hcloud_balancer)
      todo == {j \in i..Len(b.targets) : IsSome(b.targets[j].ip)}
  IN IF todo = {} THEN Await(t, "delete_load_balancer")
     ELSE [t EXCEPT !.pc = "cleanup_remove_target", !.i = Min(todo)]

\* a cleanup that deletes the load balancer right after its services
CleanupServicesOnly(t, i) ==
  IF i <= Len(Unwrap(t.hcloud_balancer).services)
  THEN [t EXCEPT !.pc = "cleanup_delete_service", !.i = i]
  ELSE Await(t, "delete_load_balancer")

\* cleanup, the loop over the observed services from position i
CleanupServices(t, i) ==
  IF i <= Len(Unwrap(t.hcloud_balancer).services)
  THEN [t EXCEPT !.pc = "cleanup_delete_service", !.i = i]
  ELSE CleanupTargets(t, 1)

\* a cleanup that fails when there is no load balancer of the name
CleanupNotFound(t, found) ==
  LET got == GetHcloudLb(found)
  IN IF ~got.ok THEN Return(t, got.v)
     ELSE IF IsSome(got.v) THEN CleanupServices([t EXCEPT !.hcloud_balancer = got.v], 1)
     ELSE Return(t, "HCloudError")

\* a cleanup that gets or creates the load balancer as reconcile does
CleanupGetOrCreate(t, found) ==
  LET got == GetHcloudLb(found)
  IN IF ~got.ok THEN Return(t, got.v)
     ELSE IF IsSome(got.v) THEN CleanupServices([t EXCEPT !.hcloud_balancer = got.v], 1)
     ELSE Await(t, "create_load_balancer")

\* cleanup from the answer of get_hcloud_lb on
Cleanup(t, found) ==
  LET got == GetHcloudLb(found)
  IN IF ~got.ok THEN Return(t, got.v)
     ELSE IF IsSome(got.v) THEN CleanupServices([t EXCEPT !.hcloud_balancer = got.v], 1)
     ELSE Await(t, "finalizer_remove")

\* finalizers::check
FinalizerCheck(s) == FINALIZER_NAME \in Range(s.finalizers)

\* ------------------------------------------------------------------- state
VARIABLES
  svc,        \* the Service object in the Kubernetes API server
  pod_nodes,  \* the names of the nodes the pods of the Service run on
  lbs,        \* the load balancers of the HCloud project
  task,       \* the in-flight reconcile_service pass
  calls,      \* history: the mutating calls the current pass has issued
  failures,   \* history: API requests that have failed so far
  changed,    \* history: another client has changed the HCloud project, or
              \* the user the Service, between two passes
  streak,     \* history: consecutive passes whose LoadBalancer::reconcile
              \* returned Ok with no out-of-band change in between (up to 2)
  lbs0,       \* history: the HCloud state when the current pass started
  aborted,    \* history: a reconcile pass has returned an error after HCloud
              \* had applied at least one of its mutating calls
  other,      \* a second Service of the cluster with the record of its pass
              \* (none when the cluster holds one Service)
  probe       \* the arguments and results of a function examined on its own
              \* (none while the controller runs)

vars == << config, svc, pod_nodes, lbs, task, calls, failures, changed, streak, lbs0,
           aborted, other, probe >>

AnnotationKeys == {"balancer", "lb-network", "lb-private-ip", "lb-algorithm",
                   "balancer-type", "lb-location", "lb-check-interval", "lb-timeout",
                   "lb-retries", "lb-proxy-mode"}
\* the annotations of a Service that asks for a network and a private ip
Annotations(network, private_ip) ==
  [k \in AnnotationKeys |-> IF k = "lb-network" THEN network
                            ELSE IF k = "lb-private-ip" THEN private_ip
                            ELSE None]
\* (lb-network, lb-private-ip) of the Services considered
NetworkChoices ==
  {<< None, None >>, << Some("net-a"), None >>, << Some("net-a"), Some("10.0.5.7") >>,
   << Some("net-x"), None >>}
OTHER_FINALIZER == "service.kubernetes.io/load-balancer-cleanup"

Init ==
  /\ \E type \in {Some("LoadBalancer"), Some("ClusterIP")}, n \in NetworkChoices,
        S \in {1..k : k \in 0..MaxPort},
        finalizers \in {<< >>, << OTHER_FINALIZER >>} :
       svc = [namespace |-> "n", name |-> LbName, exists |-> TRUE, type |-> type,
              annotations |-> Annotations(n[1], n[2]),
              selector |-> Some(AppWeb),
              ports |-> ServicePortsOf(S),
              finalizers |-> finalizers,
              deletion_timestamp |-> FALSE,
              status |-> << >>]
  /\ pod_nodes \in {1..k : k \in 0..MaxIP}
  /\ lbs = {}
  /\ task = Idle
  /\ calls = << >>
  /\ failures = 0
  /\ changed = FALSE
  /\ streak = 0
  /\ lbs0 = {}
  /\ aborted = FALSE
  /\ other = None
  /\ probe = None
  /\ config = Config

\* ------------------------------------------------------------ controller
\* the pass that moves to n, having issued the calls issued, is a reconcile
\* pass that returns an error other than SkipService after HCloud has applied
\* at least one of its calls
PassAborted(n, issued) ==
  /\ n.pc = "idle"
  /\ n.branch = "reconcile"
  /\ n.ret \notin {"requeue", "await_change", "SkipService"}
  /\ \E j \in DOMAIN issued :
       /\ issued[j].ok
       /\ issued[j].call.op \notin {"finalizer_add", "patch_status", "finalizer_remove"}

\* the task moves to n, having issued the calls cs
Step(n, cs) ==
  /\ task' = n
  /\ calls' = calls \o cs
  /\ streak' = IF n.lb_ok /\ ~task.lb_ok THEN (IF streak < 2 THEN streak + 1 ELSE 2)
               ELSE IF n.pc = "idle" /\ ~n.lb_ok THEN 0
               ELSE streak
  /\ aborted' = (aborted \/ PassAborted(n, calls \o cs))
  /\ UNCHANGED << pod_nodes, changed, lbs0, other, probe, config >>

Issued(c, ok) == << [call |-> c, ok |-> ok] >>

\* a read-only API call: it answers (the task moves to n) or fails with err
ReadCall(n, err) ==
  \/ /\ Step(n, << >>)
     /\ UNCHANGED << svc, lbs, failures >>
  \/ /\ failures < MaxFailures
     /\ failures' = failures + 1
     /\ Step(Return(task, err), << >>)
     /\ UNCHANGED << svc, lbs >>

\* a call whose error is not propagated: the task moves to n anyway
HCloudCallIgnoreError(c, n) ==
  \/ /\ Accepts(lbs, c)
     /\ lbs' = Apply(lbs, c)
     /\ Step(n, Issued(c, TRUE))
     /\ UNCHANGED << svc, failures >>
  \/ /\ ~Accepts(lbs, c) \/ failures < MaxFailures
     /\ failures' = IF Accepts(lbs, c) THEN failures + 1 ELSE failures
     /\ Step(n, Issued(c, FALSE))
     /\ UNCHANGED << svc, lbs >>

\* a call that is sent again after an error: the task stays at its await
HCloudCallRetry(c, n) ==
  \/ /\ Accepts(lbs, c)
     /\ lbs' = Apply(lbs, c)
     /\ Step(n, Issued(c, TRUE))
     /\ UNCHANGED << svc, failures >>
  \/ /\ ~Accepts(lbs, c) \/ failures < MaxFailures
     /\ failures' = IF Accepts(lbs, c) THEN failures + 1 ELSE failures
     /\ Step(task, Issued(c, FALSE))
     /\ UNCHANGED << svc, lbs >>

\* a mutating HCloud call c: HCloud applies it and the task moves to n, or
\* the call fails (HCloud refuses it, or the request fails) and the pass
\* returns the error
HCloudCall(c, n) ==
  \/ /\ Accepts(lbs, c)
     /\ lbs' = Apply(lbs, c)
     /\ Step(n, Issued(c, TRUE))
     /\ UNCHANGED << svc, failures >>
  \/ /\ ~Accepts(lbs, c) \/ failures < MaxFailures
     /\ failures' = IF Accepts(lbs, c) THEN failures + 1 ELSE failures
     /\ Step(Return(task, "HCloudError"), Issued(c, FALSE))
     /\ UNCHANGED << svc, lbs >>

\* a Service patch that sets the fields of s: the API server applies it and
\* the task moves to n, or the request fails
KubePatch(c, s, n) ==
  \/ /\ svc' = s
     /\ Step(n, Issued(c, TRUE))
     /\ UNCHANGED << lbs, failures >>
  \/ /\ failures < MaxFailures
     /\ failures' = failures + 1
     /\ Step(Return(task, "KubeError"), Issued(c, FALSE))
     /\ UNCHANGED << svc, lbs >>

\* get_nodes_dynamically up to its first await: a Service without selector
\* has no target nodes
GetNodesDynamically(t, s) ==
  IF ~IsSome(s.selector) THEN Return(t, "ServiceWithoutSelector")
  ELSE Await(t, "list_pods")

\* reconcile_service: spec.type of the Service, "ClusterIP" when absent
SvcType(s) == IF IsSome(s.type) THEN Unwrap(s.type) ELSE "ClusterIP"

\* a reconcile_service that goes on without adding the finalizer
ReconcileServiceStartNoFinalizer(s) ==
  LET t == [Idle EXCEPT !.ret = "pending"]
      lb == TryFromSvc(s)
  IN IF SvcType(s) # "LoadBalancer" THEN Return(t, "SkipService")
     ELSE IF ~lb.ok THEN Return(t, lb.err)
     ELSE IF s.deletion_timestamp
          THEN Await([t EXCEPT !.lb = Some(lb.v), !.branch = "cleanup"], "cleanup_list")
     ELSE GetNodesDynamically([t EXCEPT !.lb = Some(lb.v), !.branch = "reconcile"], s)

\* a reconcile_service that looks at spec.type only after the deletion branch
ReconcileServiceStartLateGate(s) ==
  LET t == [Idle EXCEPT !.ret = "pending"]
      lb == TryFromSvc(s)
  IN IF ~lb.ok THEN Return(t, lb.err)
     ELSE IF s.deletion_timestamp
          THEN Await([t EXCEPT !.lb = Some(lb.v), !.branch = "cleanup"], "cleanup_list")
     ELSE IF SvcType(s) # "LoadBalancer" THEN Return(t, "SkipService")
     ELSE IF ~FinalizerCheck(s)
          THEN Await([t EXCEPT !.lb = Some(lb.v), !.branch = "reconcile"], "finalizer_add")
     ELSE GetNodesDynamically([t EXCEPT !.lb = Some(lb.v), !.branch = "reconcile"], s)

\* a reconcile_service that takes the deletion branch of a Service whose
\* annotations do not parse, and drops its finalizer
ReconcileServiceStartDeletionFirst(s) ==
  LET t == [Idle EXCEPT !.ret = "pending"]
      lb == TryFromSvc(s)
  IN IF SvcType(s) # "LoadBalancer" THEN Return(t, "SkipService")
     ELSE IF s.deletion_timestamp /\ ~lb.ok
          THEN Await([t EXCEPT !.branch = "cleanup"], "finalizer_remove")
     ELSE IF ~lb.ok THEN Return(t, lb.err)
     ELSE IF s.deletion_timestamp
          THEN Await([t EXCEPT !.lb = Some(lb.v), !.branch = "cleanup"], "cleanup_list")
     ELSE IF ~FinalizerCheck(s)
          THEN Await([t EXCEPT !.lb = Some(lb.v), !.branch = "reconcile"], "finalizer_add")
     ELSE GetNodesDynamically([t EXCEPT !.lb = Some(lb.v), !.branch = "reconcile"], s)

\* reconcile_service up to its first await
ReconcileServiceStart(s) ==
  LET t == [Idle EXCEPT !.ret = "pending"]
      lb == TryFromSvc(s)
  IN IF SvcType(s) # "LoadBalancer" THEN Return(t, "SkipService")
     ELSE IF ~lb.ok THEN Return(t, lb.err)
     ELSE IF s.deletion_timestamp
          THEN Await([t EXCEPT !.lb = Some(lb.v), !.branch = "cleanup"], "cleanup_list")
     ELSE IF ~FinalizerCheck(s)
          THEN Await([t EXCEPT !.lb = Some(lb.v), !.branch = "reconcile"], "finalizer_add")
     ELSE GetNodesDynamically([t EXCEPT !.lb = Some(lb.v), !.branch = "reconcile"], s)

\* the controller starts a pass on the Service
ReconcileService ==
  /\ task.pc = "idle"
  /\ svc.exists
  /\ task' = ReconcileServiceStart(svc)
  /\ calls' = << >>
  /\ lbs0' = lbs
  /\ streak' = IF task'.branch = "reconcile" /\ task'.pc # "idle" THEN streak ELSE 0
  /\ UNCHANGED << svc, pod_nodes, lbs, failures, changed, aborted, other, probe, config >>

\* the Service after the merge patch of finalizers::add, which sets
\* metadata.finalizers to the one finalizer of the controller
FinalizersAdd(s) == [s EXCEPT !.finalizers = << FINALIZER_NAME >>]

\* finalizers::add
FinalizerAdd ==
  /\ task.pc = "finalizer_add"
  /\ KubePatch([op |-> "finalizer_add"], FinalizersAdd(svc), GetNodesDynamically(task, svc))

\* get_nodes_dynamically: the pods of the Service are listed
ListPods ==
  /\ task.pc = "list_pods"
  /\ ReadCall(Await(task, "list_nodes"), "KubeError")

\* the desired load balancer with the targets of the nodes and the services
\* of spec.ports (reconcile_load_balancer up to lb.reconcile())
WithTargetsAndServices(l, nodes, ports) ==
  AddPortServices(AddNodeTargets(l, nodes, 1, NodeIpType(l)), ports, 1)

\* get_nodes_dynamically: the nodes are listed and those running a pod of
\* the Service kept; LoadBalancer::reconcile starts with get_hcloud_lb
ListNodes ==
  /\ task.pc = "list_nodes"
  /\ LET nodes == SelectSeq(ClusterNodes,
                            LAMBDA node : node.name \in TargetNodes(svc, pod_nodes))
         l == WithTargetsAndServices(Unwrap(task.lb), nodes, svc.ports)
     IN ReadCall([task EXCEPT !.lb = Some(l), !.pc = "list_load_balancers"], "KubeError")

\* get_or_create_hcloud_lb: get_hcloud_lb lists the load balancers by name
ListLbs ==
  /\ task.pc = "list_load_balancers"
  /\ ReadCall(GetOrCreateHcloudLb(task, ListLoadBalancers(lbs, Unwrap(task.lb).name)),
              "HCloudError")

\* the request get_or_create_hcloud_lb sends
CreateLoadBalancerRequest(l) ==
  [op |-> "create_load_balancer", name |-> l.name, algorithm |-> l.algorithm,
   load_balancer_type |-> l.balancer_type, location |-> l.location,
   network |-> None, public_interface |-> TRUE, services |-> << >>, targets |-> << >>]

\* get_or_create_hcloud_lb: no load balancer of the name exists, one is
\* created and returned
CreateLoadBalancer ==
  /\ task.pc = "create_load_balancer"
  /\ LET c == CreateLoadBalancerRequest(Unwrap(task.lb))
         created == Lb(Apply(lbs, c), FreshId(lbs))
     IN HCloudCall(c, ReconcileAlgorithm([task EXCEPT !.hcloud_balancer = Some(created)]))

\* reconcile_algorithm: the algorithm differs
ChangeAlgorithm ==
  /\ task.pc = "change_algorithm"
  /\ HCloudCall([op |-> "change_algorithm", id |-> Unwrap(task.hcloud_balancer).id,
                 algorithm |-> Unwrap(task.lb).algorithm],
                ReconcileLbType(task))

\* reconcile_lb_type: the type differs
ChangeType ==
  /\ task.pc = "change_type"
  /\ HCloudCall([op |-> "change_type", id |-> Unwrap(task.hcloud_balancer).id,
                 load_balancer_type |-> Unwrap(task.lb).balancer_type],
                ReconcileNetwork(task))

\* reconcile_network: get_network lists the networks by name
ListNetworksCall ==
  /\ task.pc = "list_networks"
  /\ ReadCall(ReconcileNetworkGot(task), "HCloudError")

\* reconcile_network: the attachment at position i is detached
Detach ==
  /\ task.pc = "detach"
  /\ LET b == Unwrap(task.hcloud_balancer)
     IN HCloudCall([op |-> "detach", id |-> b.id,
                    network |-> Unwrap(b.private_net[task.i].network)],
                   ReconcileNetworkLoop(task, task.i + 1))

\* reconcile_network: the load balancer is attached to the desired network,
\* with the private ip asked for, or else one HCloud chooses
Attach ==
  /\ task.pc = "attach"
  /\ LET l == Unwrap(task.lb)
     IN \E ip \in IF IsSome(l.private_ip) THEN {Unwrap(l.private_ip)} ELSE PrivateIPs :
          HCloudCall([op |-> "attach", id |-> Unwrap(task.hcloud_balancer).id,
                      network |-> Unwrap(task.desired_network), ip |-> ip,
                      requested_ip |-> l.private_ip],
                     ReconcileServices(task, 1))

\* the body update_service sends for the observed listen port
UpdateLoadBalancerService(l, listen_port) ==
  [listen_port |-> listen_port,
   destination_port |-> l.services[listen_port],
   proxyprotocol |-> l.proxy_mode,
   http |-> FALSE,
   health_check |-> [protocol |-> "tcp", port |-> l.services[listen_port],
                     interval |-> l.check_interval, retries |-> l.retries,
                     timeout |-> l.timeout]]

\* reconcile_services: the observed service at position i is updated
UpdateService ==
  /\ task.pc = "update_service"
  /\ LET b == Unwrap(task.hcloud_balancer)
     IN HCloudCall([op |-> "update_service", id |-> b.id,
                    service |-> UpdateLoadBalancerService(Unwrap(task.lb),
                                                          b.services[task.i].listen_port)],
                   ReconcileServices(task, task.i + 1))

\* reconcile_services: the observed service at position i is deleted
DeleteService ==
  /\ task.pc = "delete_service"
  /\ LET b == Unwrap(task.hcloud_balancer)
     IN HCloudCall([op |-> "delete_service", id |-> b.id,
                    listen_port |-> b.services[task.i].listen_port],
                   ReconcileServices(task, task.i + 1))

\* reconcile_services: a missing service is added
AddServiceCall ==
  /\ task.pc = "add_service"
  /\ LET l == Unwrap(task.lb)
     IN \E p \in task.pending :
          HCloudCall([op |-> "add_service", id |-> Unwrap(task.hcloud_balancer).id,
                      service |-> LoadBalancerService(p, l.services[p], l.proxy_mode,
                                                      l.check_interval, l.retries, l.timeout)],
                     ReconcileServicesAdd(task, task.pending \ {p}))

\* reconcile_targets: the observed target at position i is removed
RemoveTarget ==
  /\ task.pc = "remove_target"
  /\ LET b == Unwrap(task.hcloud_balancer)
     IN HCloudCall([op |-> "remove_target", id |-> b.id,
                    target |-> IpTarget(Unwrap(b.targets[task.i].ip))],
                   ReconcileTargets(task, task.i + 1))

\* reconcile_targets: the desired target at position i is added
AddTargetCall ==
  /\ task.pc = "add_target"
  /\ HCloudCall([op |-> "add_target", id |-> Unwrap(task.hcloud_balancer).id,
                 target |-> IpTarget(Unwrap(task.lb).targets[task.i])],
                ReconcileTargetsAdd(task, task.i + 1))

\* reconcile_load_balancer: the ingress of the load balancer is written to
\* the status of the Service; the pass asks to be requeued
PatchStatus ==
  /\ task.pc = "patch_status"
  /\ KubePatch([op |-> "patch_status"],
               [svc EXCEPT !.status = Ingress(Unwrap(task.hcloud_balancer))],
               Return(task, "requeue"))

\* cleanup: get_hcloud_lb lists the load balancers by name
CleanupList ==
  /\ task.pc = "cleanup_list"
  /\ ReadCall(Cleanup(task, ListLoadBalancers(lbs, Unwrap(task.lb).name)), "HCloudError")

\* cleanup: the observed service at position i is deleted
CleanupDeleteService ==
  /\ task.pc = "cleanup_delete_service"
  /\ LET b == Unwrap(task.hcloud_balancer)
     IN HCloudCall([op |-> "delete_service", id |-> b.id,
                    listen_port |-> b.services[task.i].listen_port],
                   CleanupServices(task, task.i + 1))

\* cleanup: the observed target at position i is removed
CleanupRemoveTarget ==
  /\ task.pc = "cleanup_remove_target"
  /\ LET b == Unwrap(task.hcloud_balancer)
     IN HCloudCall([op |-> "remove_target", id |-> b.id,
                    target |-> IpTarget(Unwrap(b.targets[task.i].ip))],
                   CleanupTargets(task, task.i + 1))

\* cleanup: the load balancer is deleted
DeleteLoadBalancer ==
  /\ task.pc = "delete_load_balancer"
  /\ HCloudCall([op |-> "delete_load_balancer", id |-> Unwrap(task.hcloud_balancer).id],
                Await(task, "finalizer_remove"))

\* the Service after a patch of metadata.finalizers: the API server deletes
\* an object under deletion once its last finalizer is gone
WithFinalizers(s, finalizers) ==
  [s EXCEPT !.finalizers = finalizers,
            !.exists = ~(s.deletion_timestamp /\ finalizers = << >>)]

\* the Service after the merge patch of finalizers::remove, which sets
\* metadata.finalizers to the finalizers of the Service other than the
\* controller's
FinalizersRemove(s) ==
  WithFinalizers(s, SelectSeq(s.finalizers, LAMBDA item : item # FINALIZER_NAME))

\* finalizers::remove
FinalizerRemove ==
  /\ task.pc = "finalizer_remove"
  /\ KubePatch([op |-> "finalizer_remove"], FinalizersRemove(svc), Return(task, "await_change"))

\* ------------------------------------------------------------ environment
\* the user deletes the Service between two passes: the API server sets
\* deletionTimestamp, or removes the object at once when it carries no
\* finalizer; the record of the last pass is dropped
DeleteSvc ==
  /\ task.pc = "idle"
  /\ svc.exists
  /\ ~svc.deletion_timestamp
  /\ svc' = [svc EXCEPT !.deletion_timestamp = TRUE, !.exists = (svc.finalizers # << >>)]
  /\ task' = Idle
  /\ calls' = << >>
  /\ streak' = 0
  /\ lbs0' = lbs
  /\ UNCHANGED << pod_nodes, lbs, failures, changed, aborted, other, probe, config >>

\* a service as another HCloud client may configure it on listen port p:
\* variant 1 is the one the controller would add with the operator defaults,
\* each other variant differs from it in one field
ServiceVariant(p, k) ==
  LET base == LoadBalancerService(p, NodePortOf(p), Config.default_lb_proxy_mode_enabled,
                                  Config.default_lb_interval, Config.default_lb_retries,
                                  Config.default_lb_timeout)
  IN CASE k = 1 -> base
       [] k = 2 -> [base EXCEPT !.destination_port = @ + 1]
       [] k = 3 -> [base EXCEPT !.http = TRUE]
       [] k = 4 -> [base EXCEPT !.health_check.timeout = @ + 1]
       [] k = 5 -> [base EXCEPT !.health_check.port = @ + 1]
       [] k = 6 -> [base EXCEPT !.health_check.interval = @ + 1]
       [] k = 7 -> [base EXCEPT !.health_check.retries = @ + 1]
       [] k = 8 -> [base EXCEPT !.health_check.protocol = "http"]
       [] k = 9 -> [base EXCEPT !.proxyprotocol = ~@]
OtherServices(p) == {ServiceVariant(p, k) : k \in 1..9}

\* the calls another client of the HCloud project (the console, a script) may
\* issue on the load balancers L
OutOfBandCalls(L) ==
  {[op |-> "create_load_balancer", name |-> LbName, algorithm |-> a,
    load_balancer_type |-> DEFAULT_LB_BALANCER_TYPE, location |-> DEFAULT_LB_LOCATION] :
     a \in Algorithms}
  \cup UNION {
         {[op |-> "delete_load_balancer", id |-> l.id]}
         \cup {[op |-> "change_algorithm", id |-> l.id, algorithm |-> a] : a \in Algorithms}
         \cup {[op |-> "change_type", id |-> l.id, load_balancer_type |-> ty] : ty \in BalancerTypes}
         \cup {[op |-> "attach", id |-> l.id, network |-> n, ip |-> ip, requested_ip |-> Some(ip)] :
                 n \in NetworkIds, ip \in PrivateIPs}
         \cup {[op |-> "detach", id |-> l.id, network |-> n] : n \in NetworkIds}
         \cup {[op |-> o, id |-> l.id, service |-> sv] :
                 o \in {"add_service", "update_service"},
                 sv \in UNION {OtherServices(p) : p \in Ports}}
         \cup {[op |-> "delete_service", id |-> l.id, listen_port |-> p] : p \in Ports}
         \cup {[op |-> o, id |-> l.id, target |-> tg] :
                 o \in {"add_target", "remove_target"},
                 tg \in {IpTarget(a) : a \in TargetAddresses} \cup {ServerTarget}}
         : l \in L}

\* another client changes the load balancers of the project between two
\* passes (once in a behaviour); the record of the last pass is dropped, the
\* controller keeps nothing between passes
OutOfBand ==
  /\ task.pc = "idle"
  /\ ~changed
  /\ \E c \in OutOfBandCalls(lbs) :
       /\ Accepts(lbs, c)
       /\ lbs' = Apply(lbs, c)
       /\ lbs' # lbs
  /\ changed' = TRUE
  /\ streak' = 0
  /\ task' = Idle
  /\ calls' = << >>
  /\ lbs0' = lbs'
  /\ UNCHANGED << svc, pod_nodes, failures, aborted, other, probe, config >>

Next ==
  \/ ReconcileService
  \/ FinalizerAdd
  \/ ListPods
  \/ ListNodes
  \/ ListLbs
  \/ CreateLoadBalancer
  \/ ChangeAlgorithm
  \/ ChangeType
  \/ ListNetworksCall
  \/ Detach
  \/ Attach
  \/ UpdateService
  \/ DeleteService
  \/ AddServiceCall
  \/ RemoveTarget
  \/ AddTargetCall
  \/ PatchStatus
  \/ CleanupList
  \/ CleanupDeleteService
  \/ CleanupRemoveTarget
  \/ DeleteLoadBalancer
  \/ FinalizerRemove
  \/ DeleteSvc
  \/ OutOfBand

Spec == Init /\ [][Next]_vars

\* --------------------------------------- reconciling any load balancer
\* A second specification: the project holds no load balancer of the name or
\* one in any configuration, no request fails and no other client interferes;
\* the controller reconciles the Service again and again.

\* the services found: on every listen port none (0) or variant 1, or, on at
\* most one port, one of the variants 2..4
AnyServices ==
  {LET present == SelectSeq([p \in Ports |-> p], LAMBDA p : f[p] # 0)
   IN [j \in DOMAIN present |-> ServiceVariant(present[j], f[present[j]])] :
     f \in {g \in [Ports -> 0..4] : Cardinality({p \in Ports : g[p] > 1}) <= 1}}
\* the targets found: none, the external or the internal address of node 1,
\* a target without ip, or all three
TargetChoices == << IpTarget(1), IpTarget(InternalIpOf(1)), ServerTarget >>
AnyTargets ==
  {SelectSeq(TargetChoices, LAMBDA tg : tg \in S) :
     S \in {T \in SUBSET Range(TargetChoices) : Cardinality(T) # 2}}
AnyPrivateNets ==
  LET e(n, ip) == [network |-> Some(n), ip |-> Some(ip)]
  IN {<< >>, << e(1, "10.0.5.7") >>, << e(1, "10.0.5.8") >>, << e(2, "10.0.5.7") >>,
      << e(2, "10.0.5.7"), e(1, "10.0.5.8") >>}
AnyLoadBalancers ==
  {[id |-> 1, name |-> LbName, algorithm |-> a, load_balancer_type |-> ty,
    location |-> DEFAULT_LB_LOCATION, private_net |-> pn, services |-> sv,
    targets |-> tg, public_net |-> [ipv4 |-> Some("v4"), ipv6 |-> Some("v6")]] :
     a \in Algorithms, ty \in BalancerTypes, pn \in AnyPrivateNets,
     sv \in AnyServices, tg \in AnyTargets}

InitAny ==
  /\ \E n \in NetworkChoices \ {<< Some("net-x"), None >>},
        S \in {1..k : k \in 0..MaxPort} :
       svc = [namespace |-> "n", name |-> LbName, exists |-> TRUE,
              type |-> Some("LoadBalancer"),
              annotations |-> Annotations(n[1], n[2]),
              selector |-> Some(AppWeb),
              ports |-> ServicePortsOf(S),
              finalizers |-> << >>,
              deletion_timestamp |-> FALSE,
              status |-> << >>]
  /\ pod_nodes \in {1..k : k \in 0..MaxIP}
  /\ lbs \in {{}} \cup {{l} : l \in AnyLoadBalancers}
  /\ task = Idle
  /\ calls = << >>
  /\ failures = MaxFailures
  /\ changed = TRUE
  /\ streak = 0
  /\ lbs0 = lbs
  /\ aborted = FALSE
  /\ other = None
  /\ probe = None
  /\ config = Config

NextAny ==
  \/ ReconcileService
  \/ FinalizerAdd
  \/ ListPods
  \/ ListNodes
  \/ ListLbs
  \/ CreateLoadBalancer
  \/ ChangeAlgorithm
  \/ ChangeType
  \/ ListNetworksCall
  \/ Detach
  \/ Attach
  \/ UpdateService
  \/ DeleteService
  \/ AddServiceCall
  \/ RemoveTarget
  \/ AddTargetCall
  \/ PatchStatus

SpecAny == InitAny /\ [][NextAny]_vars

\* ------------------------------------------------------------- properties
MutatingOps ==
  {"create_load_balancer", "delete_load_balancer", "change_algorithm", "change_type",
   "attach", "detach", "add_service", "update_service", "delete_service",
   "add_target", "remove_target"}
\* the mutating HCloud calls the current (or last) pass has issued
HCloudMutations == SelectSeq(calls, LAMBDA c : c.call.op \in MutatingOps)
AllOk == \A j \in DOMAIN calls : calls[j].ok
IssuedOk(op) == \E j \in DOMAIN calls : calls[j].call.op = op /\ calls[j].ok
HasFinalizer(s) == \E j \in DOMAIN s.finalizers : s.finalizers[j] = FINALIZER_NAME
\* the load balancers of the name of the Service
Named(L) == {l \in L : l.name = LbName}
\* the load balancer of the Service, when there is exactly one
TheLb == CHOOSE l \in Named(lbs) : TRUE

\* C1: Idempotence of LoadBalancer::reconcile.  When a pass follows a pass
\* whose LoadBalancer::reconcile returned Ok (all its calls succeeded and
\* were applied), with the same Service and no change of HCloud in between,
\* it issues no mutating HCloud call and leaves the HCloud state as it was.
RepeatedPass ==
  \/ streak >= 2
  \/ streak >= 1 /\ task.pc # "idle" /\ ~task.lb_ok
C1_Idempotence == RepeatedPass => HCloudMutations = << >> /\ lbs = lbs0
\* a second pass has run on a load balancer that has services and targets
C1_Witness ==
  /\ streak = 2
  /\ task.pc = "idle"
  /\ task.ret = "requeue"
  /\ \E l \in lbs : l.services # << >> /\ l.targets # << >> /\ l.private_net # << >>

\* the desired load balancer of the current (or last) pass, complete once the
\* pass has listed the nodes
Desired == Unwrap(task.lb)
DesiredBuilt == task.pc \notin {"finalizer_add", "list_pods", "list_nodes"}
CountOf(seq, P(_)) == Cardinality({j \in DOMAIN seq : P(seq[j])})

\* the observed IP targets are the desired targets, one for each
IpTargetsAsDesired(l, b) ==
  /\ \A ip \in Range(l.targets) : CountOf(b.targets, LAMBDA tg : tg.ip = Some(ip)) = 1
  /\ \A j \in DOMAIN b.targets :
       IsSome(b.targets[j].ip) => Unwrap(b.targets[j].ip) \in Range(l.targets)
\* the observed targets are the desired targets, one for each, and no other
TargetsAsDesired(l, b) ==
  /\ \A ip \in Range(l.targets) : CountOf(b.targets, LAMBDA tg : tg.ip = Some(ip)) = 1
  /\ \A j \in DOMAIN b.targets : \E ip \in Range(l.targets) : b.targets[j].ip = Some(ip)
\* the observed services are the desired services, one for each listen port
\* and configured as desired, and no other
ServicesAsDesired(l, b) ==
  /\ \A p \in DOMAIN l.services : CountOf(b.services, LAMBDA sv : sv.listen_port = p) = 1
  /\ \A j \in DOMAIN b.services :
       LET sv == b.services[j]
       IN /\ sv.listen_port \in DOMAIN l.services
          /\ sv.destination_port = l.services[sv.listen_port]
          /\ sv.health_check.port = l.services[sv.listen_port]
          /\ sv.health_check.interval = l.check_interval
          /\ sv.health_check.retries = l.retries
          /\ sv.health_check.timeout = l.timeout
          /\ sv.health_check.protocol = "tcp"
          /\ sv.proxyprotocol = l.proxy_mode
          /\ ~sv.http
\* the observed attachments are the desired one, or none when none is desired
NetworkAsDesired(l, b) ==
  IF l.network_name = None THEN b.private_net = << >>
  ELSE /\ Len(b.private_net) = 1
       /\ \E n \in ListNetworks(Unwrap(l.network_name)) :
            b.private_net[1].network = Some(n.id)
       /\ IsSome(l.private_ip) => b.private_net[1].ip = l.private_ip

\* C2 (as stated): from no load balancer or one load balancer in any
\* configuration, after two consecutive successful passes the load balancer
\* has the desired algorithm, type, network attachment, services and targets.
C2_Original ==
  streak >= 2 /\ DesiredBuilt =>
    /\ Cardinality(Named(lbs)) = 1
    /\ TheLb.algorithm = Desired.algorithm
    /\ TheLb.load_balancer_type = Desired.balancer_type
    /\ NetworkAsDesired(Desired, TheLb)
    /\ ServicesAsDesired(Desired, TheLb)
    /\ TargetsAsDesired(Desired, TheLb)
\* C2 (amended): from no load balancer or one load balancer in any
\* configuration, after two consecutive successful passes the load balancer
\* has the desired algorithm, type, network attachment and services, and its
\* targets that carry an ip are the desired targets.
C2_Convergence ==
  streak >= 2 /\ DesiredBuilt =>
    /\ Cardinality(Named(lbs)) = 1
    /\ TheLb.algorithm = Desired.algorithm
    /\ TheLb.load_balancer_type = Desired.balancer_type
    /\ NetworkAsDesired(Desired, TheLb)
    /\ ServicesAsDesired(Desired, TheLb)
    /\ IpTargetsAsDesired(Desired, TheLb)
\* two passes have succeeded on a load balancer that was found with a target
\* that carries no ip, and that has services, targets and an attachment
C2_Witness ==
  /\ streak = 2
  /\ task.pc = "idle"
  /\ ServerTarget \in Range(TheLb.targets)
  /\ Len(TheLb.targets) > 1
  /\ TheLb.services # << >>
  /\ TheLb.private_net # << >>

\* C3 (as stated): once LoadBalancer::reconcile has returned Ok, the load
\* balancer has exactly one target for each desired IP and no other target.
C3_Original == task.lb_ok => TargetsAsDesired(Desired, TheLb)
\* C3 (amended): once LoadBalancer::reconcile has returned Ok, the load
\* balancer has exactly one target for each desired IP and no other target
\* that carries an ip.
C3_Targets == task.lb_ok => IpTargetsAsDesired(Desired, TheLb)
\* the pass has removed a target and added another
C3_Witness ==
  /\ task.lb_ok
  /\ IssuedOk("remove_target")
  /\ IssuedOk("add_target")
  /\ Len(Desired.targets) = MaxIP

\* C4: once reconcile_services has succeeded, for every desired listen port
\* the load balancer has exactly one service, with the desired destination
\* port, health check port, interval, retries and timeout, proxy protocol
\* flag, TCP health check and no http block; and it has no other service.
ServicesReconciled ==
  /\ task.branch = "reconcile"
  /\ task.pc \in {"remove_target", "add_target", "patch_status"} \/ task.lb_ok
C4_Services == ServicesReconciled => ServicesAsDesired(Desired, TheLb)
\* the pass has updated a service, deleted another and added a third
C4_Witness ==
  /\ ServicesReconciled
  /\ IssuedOk("update_service")
  /\ IssuedOk("delete_service") \/ IssuedOk("add_service")
  /\ DOMAIN Desired.services = Ports

\* C5: once reconcile_network has succeeded, the load balancer has no
\* attachment when no network is desired; otherwise it is attached to the
\* desired network, with the desired private ip when one is set, and to no
\* other network.
NetworkReconciled ==
  /\ task.branch = "reconcile"
  /\ \/ task.pc \in {"update_service", "delete_service", "add_service",
                     "remove_target", "add_target", "patch_status"}
     \/ task.lb_ok
C5_Network == NetworkReconciled => NetworkAsDesired(Desired, TheLb)
\* the pass has detached the load balancer from a network and attached it to
\* the desired one with the desired private ip
C5_Witness ==
  /\ NetworkReconciled
  /\ IssuedOk("detach")
  /\ IssuedOk("attach")
  /\ IsSome(Desired.private_ip)

\* C6: when list_load_balancers answers with more than one load balancer of
\* the name, the pass issues no mutating HCloud call (it neither picks one of
\* them nor creates another) and returns SkipService.
Duplicates == Cardinality(Named(lbs0)) > 1
C6_AtMostOne ==
  Duplicates /\ task.ret # "none" =>
    /\ HCloudMutations = << >>
    /\ task.pc \in {"idle", "finalizer_add", "list_pods", "list_nodes",
                    "list_load_balancers", "cleanup_list"}
    /\ task.ret \notin {"requeue", "await_change"}
    /\ task.pc = "idle" /\ failures = 0 => task.ret = "SkipService"
\* a pass on a Service of type LoadBalancer has found two load balancers
C6_Witness ==
  /\ Duplicates
  /\ task.pc = "idle"
  /\ task.branch = "reconcile"
  /\ task.ret = "SkipService"
  /\ lbs = lbs0

\* C7: a Service of type LoadBalancer that is not being deleted carries the
\* finalizer whenever the pass has got past finalizers::add, so before any
\* HCloud call of the pass; the finalizer is added only by finalizers::add on
\* a Service that is not being deleted, and removed only by finalizers::remove
\* at the end of a cleanup that left no load balancer of the name.
C7_Carried ==
  /\ task.branch = "reconcile" /\ (task.pc \notin {"idle", "finalizer_add"} \/ HCloudMutations # << >>)
       => HasFinalizer(svc)
  /\ \A j \in DOMAIN calls : calls[j].call.op = "finalizer_add" => j = 1
  /\ calls # << >> /\ calls[1].call.op = "finalizer_add" /\ ~calls[1].ok => Len(calls) = 1
C7_Changes ==
  /\ HasFinalizer(svc) /\ ~HasFinalizer(svc') =>
       /\ task.pc = "finalizer_remove"
       /\ task.branch = "cleanup"
       /\ task'.ret = "await_change"
       /\ Named(lbs) = {}
       /\ AllOk
  /\ ~HasFinalizer(svc) /\ HasFinalizer(svc') =>
       /\ task.pc = "finalizer_add"
       /\ ~svc.deletion_timestamp
       /\ calls = << >>
C7_Finalizer == []C7_Carried /\ [][C7_Changes]_vars
\* the finalizer has been removed at the end of a cleanup that deleted the
\* load balancer
C7_Witness ==
  /\ svc.deletion_timestamp
  /\ ~HasFinalizer(svc)
  /\ task.ret = "await_change"
  /\ IssuedOk("delete_load_balancer")
  /\ IssuedOk("finalizer_remove")

\* the load balancer the cleanup pass found
Found == CHOOSE b \in Named(lbs0) : TRUE
CleanupDone == task.branch = "cleanup" /\ Named(lbs0) # {} /\ IssuedOk("finalizer_remove")
DeleteServiceCalls(b) ==
  [j \in DOMAIN b.services |->
     [op |-> "delete_service", id |-> b.id, listen_port |-> b.services[j].listen_port]]
RemoveTargetCalls(targets, b) ==
  [j \in DOMAIN targets |-> [op |-> "remove_target", id |-> b.id, target |-> targets[j]]]
CleanupCalls(targets, b) ==
  DeleteServiceCalls(b) \o RemoveTargetCalls(targets, b)
    \o << [op |-> "delete_load_balancer", id |-> b.id], [op |-> "finalizer_remove"] >>
CleanupPcs ==
  {"cleanup_list", "cleanup_delete_service", "cleanup_remove_target", "delete_load_balancer"}
StepFails ==
  \/ failures' > failures
  \/ Len(calls') > Len(calls) /\ ~calls'[Len(calls')].ok
  \/ task.pc = "cleanup_list" /\ Cardinality(Named(lbs)) > 1
C9_Reached == task.pc = "finalizer_remove" => Named(lbs) = {} /\ AllOk
C9_Failed ==
  /\ task.branch = "cleanup"
  /\ task.pc = "idle"
  /\ task.ret \in {"HCloudError", "SkipService"}
  => /\ \A j \in DOMAIN calls : calls[j].call.op # "finalizer_remove"
     /\ \A j \in DOMAIN calls : ~calls[j].ok => j = Len(calls)
C9_Fails ==
  task.pc \in CleanupPcs /\ StepFails =>
    /\ task'.pc = "idle"
    /\ task'.ret \in {"HCloudError", "SkipService"}
    /\ svc' = svc
    /\ lbs' = lbs
C9_CleanupFailure == [](C9_Reached /\ C9_Failed) /\ [][C9_Fails]_vars
\* a cleanup has failed at a call that followed a successful one, and the
\* Service carries the finalizer
C9_Witness ==
  /\ task.branch = "cleanup"
  /\ task.pc = "idle"
  /\ task.ret = "HCloudError"
  /\ Len(calls) > 1
  /\ ~calls[Len(calls)].ok
  /\ svc.exists
  /\ HasFinalizer(svc)

\* C10: when the cleanup finds no load balancer of the name, the pass issues
\* no mutating HCloud call, goes on to finalizers::remove, which removes the
\* finalizer, and returns await_change.
C10_MissingLb ==
  task.branch = "cleanup" /\ Named(lbs0) = {} =>
    /\ HCloudMutations = << >>
    /\ task.pc \in {"cleanup_list", "finalizer_remove", "idle"}
    /\ task.pc = "idle" /\ failures = 0 => task.ret = "await_change"
    /\ task.pc = "idle" /\ task.ret = "await_change" =>
         /\ ~HasFinalizer(svc)
         /\ calls = Issued([op |-> "finalizer_remove"], TRUE)
\* the Service was deleted when the cleanup, which found no load balancer,
\* removed its last finalizer
C10_Witness ==
  /\ task.branch = "cleanup"
  /\ Named(lbs0) = {}
  /\ task.pc = "idle"
  /\ task.ret = "await_change"
  /\ ~svc.exists
  /\ calls = Issued([op |-> "finalizer_remove"], TRUE)

\* ------------------------------------------------ the controller schedule
\* Controller::run calls reconcile_service for a Service when a watch event
\* of it is pending and when the action of its last pass asks for it.

\* an error handler that asks for no requeue at all
OnErrorAwaitChange(error) == "await_change"

\* an error handler that requeues after every error
OnErrorRequeueAll(error) == "requeue"

\* on_error: the action taken when a pass returned the error
OnError(error) == IF error = "SkipService" THEN "await_change" ELSE "requeue"

\* the action Controller::run follows after a pass that returned ret: the
\* action of Ok(action), or what on_error makes of the error
Scheduled(ret) == IF ret \in {"requeue", "await_change"} THEN ret ELSE OnError(ret)

\* the controller runs a pass: the first one for the pending event, a later
\* one only when the last pass left a requeue
RunScheduled ==
  /\ task.ret = "none" \/ Scheduled(task.ret) = "requeue"
  /\ ReconcileService

\* ------------------------------------------------- deleting the Service
\* A third specification: the Service carries the finalizer and has just got
\* its deletionTimestamp; the project holds no load balancer of its name, one
\* in any configuration, or two; up to MaxFailures requests fail.

\* a second load balancer of the same name
Twin(l) == [l EXCEPT !.id = 2]

InitDel ==
  /\ \E finalizers \in {<< FINALIZER_NAME >>, << OTHER_FINALIZER, FINALIZER_NAME >>} :
       svc = [namespace |-> "n", name |-> LbName, exists |-> TRUE,
              type |-> Some("LoadBalancer"),
              annotations |-> Annotations(None, None),
              selector |-> Some(AppWeb),
              ports |-> ServicePortsOf(1..MaxPort),
              finalizers |-> finalizers,
              deletion_timestamp |-> TRUE,
              status |-> << >>]
  /\ pod_nodes = {}
  /\ lbs \in {{}} \cup {{l} : l \in AnyLoadBalancers} \cup {{l, Twin(l)} : l \in AnyLoadBalancers}
  /\ task = Idle
  /\ calls = << >>
  /\ failures = 0
  /\ changed = FALSE
  /\ streak = 0
  /\ lbs0 = lbs
  /\ aborted = FALSE
  /\ other = None
  /\ probe = None
  /\ config = Config

NextDel ==
  \/ RunScheduled
  \/ CleanupList
  \/ CleanupDeleteService
  \/ CleanupRemoveTarget
  \/ DeleteLoadBalancer
  \/ FinalizerRemove

\* the controller runs every scheduled pass and every pending call answers
SpecDel == InitDel /\ [][NextDel]_vars /\ WF_vars(NextDel)

\* C11 as stated: once the Service is under deletion with the finalizer, the
\* load balancer is eventually gone, the finalizer removed and the last pass
\* has returned await_change.
C11_CleanedUp ==
  /\ Named(lbs) = {}
  /\ ~HasFinalizer(svc)
  /\ task.pc = "idle"
  /\ task.ret = "await_change"
AnyAnnotations ==
  {a \in {[k \in AnnotationKeys |->
             CASE k = "lb-retries" -> r
               [] k = "lb-timeout" -> t
               [] k = "lb-check-interval" -> c
               [] k = "lb-proxy-mode" -> p
               [] k = "lb-algorithm" -> g
               [] k = "lb-network" -> n
               [] OTHER -> None] :
             r \in {None, Some(<< "5" >>), Some(<< "5", "x" >>)},
             t \in {None, Some(<< "2", "0" >>), Some(<< >>)},
             c \in {None, Some(<< "+", "7" >>), Some(<< "-" >>)},
             p \in {None, Some("true"), Some("yes")},
             g \in {None, Some("round-robin"), Some("random")},
             n \in {None, Some("net-a")}} :
     Cardinality({k \in AnnotationKeys \ {"lb-network"} : a[k] # None}) <= 2}

\* a load balancer of the name as another client has left it, with or
\* without a public IPv4 address
FoundLb(ipv4) ==
  [id |-> 1, name |-> LbName, algorithm |-> "least-connections",
   load_balancer_type |-> "lb21", location |-> DEFAULT_LB_LOCATION,
   private_net |-> << [network |-> Some(2), ip |-> Some("10.0.5.7")] >>,
   services |-> << ServiceVariant(1, 1), ServiceVariant(2, 1) >>,
   targets |-> << IpTarget(2), ServerTarget >>,
   public_net |-> [ipv4 |-> ipv4, ipv6 |-> Some("v6")]]

InitSvc ==
  /\ \E type \in {None, Some("LoadBalancer"), Some("ClusterIP"), Some("NodePort")},
        a \in AnyAnnotations,
        selector \in {None, Some({}), Some(AppWeb)},
        finalizers \in {<< >>, << FINALIZER_NAME >>, << OTHER_FINALIZER >>},
        deletion_timestamp \in BOOLEAN :
       svc = [namespace |-> "n", name |-> LbName, exists |-> TRUE, type |-> type,
              annotations |-> a,
              selector |-> selector,
              ports |-> ServicePortsOf({1}),
              finalizers |-> finalizers,
              deletion_timestamp |-> deletion_timestamp,
              status |-> << >>]
  /\ pod_nodes = {1}
  /\ lbs \in {{}, {FoundLb(Some("v4"))}, {FoundLb(None)}}
  /\ task = Idle
  /\ calls = << >>
  /\ failures = 0
  /\ changed = FALSE
  /\ streak = 0
  /\ lbs0 = lbs
  /\ aborted = FALSE
  /\ other = None
  /\ probe = None
  /\ config = Config

NextSvc ==
  \/ RunScheduled
  \/ FinalizerAdd
  \/ ListPods
  \/ ListNodes
  \/ ListLbs
  \/ CreateLoadBalancer
  \/ ChangeAlgorithm
  \/ ChangeType
  \/ ListNetworksCall
  \/ Detach
  \/ Attach
  \/ UpdateService
  \/ DeleteService
  \/ AddServiceCall
  \/ RemoveTarget
  \/ AddTargetCall
  \/ PatchStatus
  \/ CleanupList
  \/ CleanupDeleteService
  \/ CleanupRemoveTarget
  \/ DeleteLoadBalancer
  \/ FinalizerRemove

SpecSvc == InitSvc /\ [][NextSvc]_vars

\* the error kinds of LBTrackerError; the variants that wrap an error of one
\* HCloud request are all written HCloudError
LBTrackerError ==
  {"InvalidNodeFilter", "UnsupportedServiceType", "SkipService", "PaseIntError",
   "PaseBoolError", "HCloudError", "KubeError", "UnknownLBAlgorithm",
   "ServiceWithoutSelector"}
\* the last pass returned an error
Failed == task.pc = "idle" /\ task.ret \in LBTrackerError

\* C12: Error handler mapping.  A pass returns Ok(requeue), Ok(await_change)
\* or an error of LBTrackerError; after an error the controller follows
\* await_change exactly when the error is SkipService, and requeue after
\* every other error.
C12_ErrorHandler ==
  /\ task.ret \in LBTrackerError \cup {"none", "pending", "requeue", "await_change"}
  /\ Failed =>
       /\ (Scheduled(task.ret) = "await_change") <=> (task.ret = "SkipService")
       /\ task.ret # "SkipService" => Scheduled(task.ret) = "requeue"
\* a pass has failed on an annotation that does not parse and is requeued
C12_Witness ==
  /\ Failed
  /\ task.ret = "PaseBoolError"
  /\ Scheduled(task.ret) = "requeue"

\* C13: Type gate.  On a Service whose spec.type is not LoadBalancer (or is
\* absent) every pass returns SkipService at once: the desired load balancer
\* is not built, no HCloud call and no Service patch is issued and HCloud is
\* as it was, whatever the annotations, finalizers and deletionTimestamp.
C13_TypeGate ==
  SvcType(svc) # "LoadBalancer" /\ task.ret # "none" =>
    /\ task.pc = "idle"
    /\ task.ret = "SkipService"
    /\ task.lb = None
    /\ calls = << >>
    /\ lbs = lbs0
\* a Service without spec.type that is under deletion, carries the finalizer
\* and has an annotation that does not parse has been skipped
C13_Witness ==
  /\ svc.type = None
  /\ task.ret = "SkipService"
  /\ svc.deletion_timestamp
  /\ HasFinalizer(svc)
  /\ svc.annotations["lb-retries"] = Some(<< "5", "x" >>)
  /\ lbs # {}

\* C14: Periodic requeue.  A pass on a LoadBalancer Service without
\* deletionTimestamp that returns Ok returns requeue, and the controller
\* follows it, whether or not the pass issued a call.
C14_Requeue ==
  task.pc = "idle" /\ task.branch = "reconcile" /\ task.ret \notin LBTrackerError =>
    /\ task.ret = "requeue"
    /\ Scheduled(task.ret) = "requeue"
\* a pass that issued no HCloud mutation and no status patch has returned
\* requeue
C14_Witness ==
  /\ task.pc = "idle"
  /\ task.branch = "reconcile"
  /\ task.ret = "requeue"
  /\ task.lb_ok
  /\ calls = << >>

\* ------------------------------------------------------------ LabelFilter
\* Strings are sequences of characters, so that splitting is computed.
MaxLen == 4
Chars == {"a", "b", "=", "!", ","}
Strings(n) == UNION {[1..k -> Chars] : k \in 0..n}

RECURSIVE Split(_, _)
\* str::split(sep): the pieces between the separators, empty ones included
Split(str, sep) ==
  LET at == {i \in DOMAIN str : str[i] = sep}
  IN IF at = {} THEN << str >>
     ELSE << SubSeq(str, 1, Min(at) - 1) >> \o Split(SubSeq(str, Min(at) + 1, Len(str)), sep)

\* the rules of a LabelFilter
Equal(key, value) == [rule |-> "Equal", key |-> key, value |-> value]
NotEqual(key, value) == [rule |-> "NotEqual", key |-> key, value |-> value]
Exists(key) == [rule |-> "Exists", key |-> key, value |-> << >>]
DoesNotExist(key) == [rule |-> "DoesNotExist", key |-> key, value |-> << >>]

\* BTreeMap::get
Get(labels, key) == IF key \in DOMAIN labels THEN Some(labels[key]) ELSE None

\* a check whose NotEqual rule asks for the key to be present
LabelFilterCheckKeyPresent(rules, labels, n) ==
  \A j \in n..Len(rules) :
    LET rule == rules[j]
    IN CASE rule.rule = "Equal" -> Get(labels, rule.key) = Some(rule.value)
         [] rule.rule = "NotEqual" ->
              Get(labels, rule.key) # None /\ Get(labels, rule.key) # Some(rule.value)
         [] rule.rule = "Exists" -> Get(labels, rule.key) # None
         [] rule.rule = "DoesNotExist" -> Get(labels, rule.key) = None

RECURSIVE LabelFilterCheckFrom(_, _, _)
\* LabelFilter::check, the loop over the rules from position n
LabelFilterCheckFrom(rules, labels, n) ==
  IF n > Len(rules) THEN TRUE
  ELSE LET rule == rules[n]
       IN IF rule.rule = "Equal" /\ Get(labels, rule.key) # Some(rule.value) THEN FALSE
          ELSE IF rule.rule = "NotEqual" /\ Get(labels, rule.key) = Some(rule.value) THEN FALSE
          ELSE IF rule.rule = "Exists" /\ Get(labels, rule.key) = None THEN FALSE
          ELSE IF rule.rule = "DoesNotExist" /\ Get(labels, rule.key) # None THEN FALSE
          ELSE LabelFilterCheckFrom(rules, labels, n + 1)

\* LabelFilter::check
LabelFilterCheck(filter, labels) == LabelFilterCheckFrom(filter.rules, labels, 1)

RECURSIVE LabelFilterFromStrFrom(_, _, _)
\* LabelFilter::from_str, the loop over the rules of the expression from
\* position n with the rules pushed so far
LabelFilterFromStrFrom(clauses, n, rules) ==
  IF n > Len(clauses) THEN [ok |-> TRUE, v |-> [rules |-> rules]]
  ELSE LET rule == clauses[n]
           parts == Split(rule, "=")
           key == parts[1]
       IN IF Len(parts) = 1
          THEN IF key # << >> /\ Head(key) = "!"
               THEN LabelFilterFromStrFrom(clauses, n + 1, Append(rules, DoesNotExist(Tail(key))))
               ELSE LabelFilterFromStrFrom(clauses, n + 1, Append(rules, Exists(key)))
          ELSE IF Len(parts) = 2
          THEN IF key # << >> /\ key[Len(key)] = "!"
               THEN LabelFilterFromStrFrom(clauses, n + 1,
                      Append(rules, NotEqual(SubSeq(key, 1, Len(key) - 1), parts[2])))
               ELSE LabelFilterFromStrFrom(clauses, n + 1, Append(rules, Equal(key, parts[2])))
          ELSE [ok |-> FALSE, v |-> [error |-> "InvalidNodeFilter", text |-> rule]]

\* LabelFilter::from_str
LabelFilterFromStr(str) == LabelFilterFromStrFrom(Split(str, ","), 1, << >>)

\* node labels: maps from some of the keys a, b to the values a, b
AnyLabels ==
  UNION {[K -> {<< "a" >>, << "b" >>}] : K \in SUBSET {<< "a" >>, << "b" >>}}

\* the controller at rest, with no Service to reconcile
NoService ==
  [namespace |-> "n", name |-> LbName, exists |-> FALSE, type |-> None,
   annotations |-> Annotations(None, None), selector |-> None, ports |-> << >>,
   finalizers |-> << >>, deletion_timestamp |-> FALSE, status |-> << >>]
AtRest ==
  /\ pod_nodes = {}
  /\ lbs = {}
  /\ task = Idle
  /\ calls = << >>
  /\ failures = 0
  /\ changed = FALSE
  /\ streak = 0
  /\ lbs0 = {}
  /\ aborted = FALSE
  /\ other = None
controller == << config, svc, pod_nodes, lbs, task, calls, failures, changed, streak, lbs0,
                 aborted, other >>

\* A fifth specification: get_nodes_by_selector parses a node selector
\* expression and checks the labels of a node against it.
InitFilter ==
  /\ svc = NoService
  /\ AtRest
  /\ config = Config
  /\ \E s \in Strings(MaxLen), labels \in AnyLabels :
       probe = [s |-> s, labels |-> labels, label_filter |-> None, check |-> None]

\* LabelFilter::from_str(node_selector)
FromStr ==
  /\ probe.label_filter = None
  /\ probe' = [probe EXCEPT !.label_filter = Some(LabelFilterFromStr(probe.s))]
  /\ UNCHANGED controller

\* label_filter.check(node.labels())
Check ==
  /\ probe.label_filter # None
  /\ Unwrap(probe.label_filter).ok
  /\ probe.check = None
  /\ probe' = [probe EXCEPT
                 !.check = Some(LabelFilterCheck(Unwrap(probe.label_filter).v, probe.labels))]
  /\ UNCHANGED controller

NextFilter ==
  \/ FromStr
  \/ Check

SpecFilter == InitFilter /\ [][NextFilter]_vars

\* the reference reading of an expression: its clauses are the pieces between
\* the commas; a clause without = is KEY (Exists) or !KEY (DoesNotExist), a
\* clause with one = is KEY=VALUE (Equal) or KEY!=VALUE (NotEqual)
Commas(s) == SetToSeq({0} \cup {i \in DOMAIN s : s[i] = ","} \cup {Len(s) + 1})
Clauses(s) ==
  [j \in 1..(Len(Commas(s)) - 1) |-> SubSeq(s, Commas(s)[j] + 1, Commas(s)[j + 1] - 1)]
Equals(clause) == {i \in DOMAIN clause : clause[i] = "="}
Holds(clause, labels) ==
  IF Equals(clause) = {}
  THEN IF clause # << >> /\ clause[1] = "!"
       THEN SubSeq(clause, 2, Len(clause)) \notin DOMAIN labels
       ELSE clause \in DOMAIN labels
  ELSE LET eq == Min(Equals(clause))
           value == SubSeq(clause, eq + 1, Len(clause))
       IN IF eq > 1 /\ clause[eq - 1] = "!"
          THEN LET key == SubSeq(clause, 1, eq - 2)
               IN ~(key \in DOMAIN labels /\ labels[key] = value)
          ELSE LET key == SubSeq(clause, 1, eq - 1)
               IN key \in DOMAIN labels /\ labels[key] = value
Rejected(s) == {j \in DOMAIN Clauses(s) : Cardinality(Equals(Clauses(s)[j])) > 1}

\* C17: Label filter correctness.  from_str accepts an expression exactly
\* when no clause holds more than one =, and otherwise returns
\* InvalidNodeFilter with the text of the first such clause; the check of an
\* accepted expression on a label map is true exactly when every clause of
\* the expression holds over the map in the reference reading.
C17_LabelFilter ==
  /\ probe.label_filter # None =>
       LET r == Unwrap(probe.label_filter)
       IN /\ r.ok <=> Rejected(probe.s) = {}
          /\ ~r.ok => r.v = [error |-> "InvalidNodeFilter",
                             text |-> Clauses(probe.s)[Min(Rejected(probe.s))]]
  /\ probe.check # None =>
       Unwrap(probe.check) =
         (\A j \in DOMAIN Clauses(probe.s) : Holds(Clauses(probe.s)[j], probe.labels))
\* the expression a!=b has been checked against the labels {a: a}
C17_Witness ==
  /\ probe.s = << "a", "!", "=", "b" >>
  /\ probe.labels = [k \in {<< "a" >>} |-> << "a" >>]
  /\ probe.check = Some(TRUE)

\* C18 as stated: the filter parsed from the empty expression matches every
\* label map.
C18_Original == probe.s = << >> /\ probe.check # None => probe.check = Some(TRUE)

\* ------------------------------------------------------------- finalizers
\* A sixth specification: finalizers::add and then finalizers::remove are
\* applied to a Service with any list of finalizers.
FinalizerNames ==
  {FINALIZER_NAME, OTHER_FINALIZER, "foregroundDeletion", "example.com/protect"}
\* the lists of distinct finalizers
AnyFinalizers ==
  {f \in UNION {[1..k -> FinalizerNames] : k \in 0..Cardinality(FinalizerNames)} :
     \A i, j \in DOMAIN f : i # j => f[i] # f[j]}

InitFin ==
  /\ \E finalizers \in AnyFinalizers :
       /\ svc = [namespace |-> "n", name |-> LbName, exists |-> TRUE,
                 type |-> Some("LoadBalancer"),
                 annotations |-> Annotations(None, None),
                 selector |-> Some(AppWeb),
                 ports |-> ServicePortsOf({1}),
                 finalizers |-> finalizers,
                 deletion_timestamp |-> FALSE,
                 status |-> << >>]
       /\ probe = [finalizers |-> finalizers, applied |-> << >>]
  /\ AtRest
  /\ config = Config

\* finalizers::add(client, &svc)
Add ==
  /\ probe.applied = << >>
  /\ svc' = FinalizersAdd(svc)
  /\ probe' = [probe EXCEPT !.applied = << "add" >>]
  /\ UNCHANGED << pod_nodes, lbs, task, calls, failures, changed, streak, lbs0, aborted, other, config >>

\* finalizers::remove(client, &svc) on the Service as add left it
Remove ==
  /\ probe.applied = << "add" >>
  /\ svc' = FinalizersRemove(svc)
  /\ probe' = [probe EXCEPT !.applied = << "add", "remove" >>]
  /\ UNCHANGED << pod_nodes, lbs, task, calls, failures, changed, streak, lbs0, aborted, other, config >>

NextFin ==
  \/ Add
  \/ Remove

SpecFin == InitFin /\ [][NextFin]_vars

\* C19 as stated: after add and then remove the Service has the finalizers it
\* had at first, in some order.
C19_Original ==
  probe.applied = << "add", "remove" >> =>
    /\ Range(svc.finalizers) = Range(probe.finalizers)
    /\ Len(svc.finalizers) = Len(probe.finalizers)

\* ------------------------------------------------------------ two Services
\* A seventh specification: the cluster holds two Services with distinct
\* (namespace, name) keys.  The controller runs at most one pass per key; the
\* passes of the two keys interleave at every await.  The variables svc, task,
\* calls, streak and lbs0 belong to the Service whose pass takes the next
\* step, `other` holds those of the second Service.

\* a LoadBalancer Service that exposes the listen ports S
ServiceOf(namespace, name, S) ==
  [namespace |-> namespace, name |-> name, exists |-> TRUE,
   type |-> Some("LoadBalancer"),
   annotations |-> Annotations(None, None),
   selector |-> Some(AppWeb),
   ports |-> ServicePortsOf(S),
   finalizers |-> << >>,
   deletion_timestamp |-> FALSE,
   status |-> << >>]

InitTwo ==
  /\ svc = ServiceOf("n", LbName, {1})
  /\ \E key \in {<< "m", LbName >>, << "n", "svc2" >>} :
       other = [svc |-> ServiceOf(key[1], key[2], {MaxPort}), task |-> Idle,
                calls |-> << >>, streak |-> 0, lbs0 |-> {}]
  /\ pod_nodes = {1}
  /\ lbs = {}
  /\ task = Idle
  /\ calls = << >>
  /\ failures = MaxFailures
  /\ changed = FALSE
  /\ streak = 0
  /\ lbs0 = {}
  /\ aborted = FALSE
  /\ probe = None
  /\ config = Config

\* the executor goes on with the pass of the other Service
Switch ==
  /\ other # None
  /\ svc' = other.svc
  /\ task' = other.task
  /\ calls' = other.calls
  /\ streak' = other.streak
  /\ lbs0' = other.lbs0
  /\ other' = [svc |-> svc, task |-> task, calls |-> calls, streak |-> streak, lbs0 |-> lbs0]
  /\ UNCHANGED << pod_nodes, lbs, failures, changed, aborted, probe, config >>

NextTwo ==
  \/ RunScheduled
  \/ FinalizerAdd
  \/ ListPods
  \/ ListNodes
  \/ ListLbs
  \/ CreateLoadBalancer
  \/ AddServiceCall
  \/ AddTargetCall
  \/ DeleteService
  \/ PatchStatus
  \/ DeleteSvc
  \/ CleanupList
  \/ CleanupDeleteService
  \/ CleanupRemoveTarget
  \/ DeleteLoadBalancer
  \/ FinalizerRemove
  \/ Switch

SpecTwo == InitTwo /\ [][NextTwo]_vars

\* the load balancers of the name a Service asks for
LbsOf(L, s) == ListLoadBalancers(L, TryFromSvc(s).v.name)

\* a step of the pass of one Service leaves the load balancers of the other
\* Service as they are
C15_Frame == other' = other => LbsOf(lbs', other.svc) = LbsOf(lbs, other.svc)
\* after two consecutive successful passes of a Service one load balancer has
\* its name, with its services and targets
C15_Reached ==
  streak >= 2 /\ DesiredBuilt =>
    /\ Cardinality(LbsOf(lbs, svc)) = 1
    /\ LET b == CHOOSE l \in LbsOf(lbs, svc) : TRUE
       IN /\ ServicesAsDesired(Desired, b)
          /\ TargetsAsDesired(Desired, b)

\* C15 as stated: with two Services of distinct keys, no step of the pass of
\* one changes or deletes the load balancer of the other, and each Service's
\* load balancer reaches the state that Service asks for.
C15_Original == [][C15_Frame]_vars /\ []C15_Reached

\* the same holds of two Services that ask for load balancers of distinct
\* names
SameLbName == TryFromSvc(svc).v.name = TryFromSvc(other.svc).v.name
C15_DistinctNames == [][SameLbName \/ C15_Frame]_vars /\ [](SameLbName \/ C15_Reached)
\* the pass of one Service has changed the load balancer the other Service
\* had created and configured
C15_Clash ==
  /\ SameLbName
  /\ svc.namespace # other.svc.namespace
  /\ other.streak >= 1
  /\ IssuedOk("delete_service")

\* C16: Failure-in-middle consistency.  Once a reconcile pass has returned
\* an error after HCloud had applied some of its mutating calls, (1) two
\* consecutive successful passes leave the load balancer as two successful
\* passes leave it without that failure: one load balancer of the name with
\* the desired algorithm, type, network attachment, services and IP targets;
\* and (2) no later reconcile pass repeats an applied mutation: every
\* mutating call it issues is one HCloud accepts and that changes the load
\* balancer, and it creates a load balancer only when none has the name.
C16_Reached ==
  aborted /\ streak >= 2 /\ DesiredBuilt =>
    /\ Cardinality(Named(lbs)) = 1
    /\ TheLb.algorithm = Desired.algorithm
    /\ TheLb.load_balancer_type = Desired.balancer_type
    /\ NetworkAsDesired(Desired, TheLb)
    /\ ServicesAsDesired(Desired, TheLb)
    /\ IpTargetsAsDesired(Desired, TheLb)
C16_Issues ==
  /\ aborted
  /\ task.branch = "reconcile"
  /\ Len(calls') = Len(calls) + 1
  /\ calls'[Len(calls')].call.op \in MutatingOps
C16_Step ==
  C16_Issues =>
    LET c == calls'[Len(calls')].call
    IN /\ Accepts(lbs, c)
       /\ Apply(lbs, c) # lbs
       /\ c.op = "create_load_balancer" => ListLoadBalancers(lbs, c.name) = {}
C16_FailureInMiddle == []C16_Reached /\ [][C16_Step]_vars
\* after a pass that failed past its first mutation, with no other client
\* involved, a pass has completed the load balancer and a further pass has
\* found nothing to do
C16_Witness ==
  /\ aborted
  /\ ~changed
  /\ streak = 2
  /\ task.pc = "idle"
  /\ HCloudMutations = << >>
  /\ Named(lbs) # {}
  /\ TheLb.services # << >>
  /\ Len(TheLb.targets) = MaxIP

\* C20: Create path.  A pass that started with no load balancer of the
\* desired name and returned Ok has issued, first, one create_load_balancer
\* with the desired name, algorithm, type and location, the public interface
\* enabled, no services, no targets and no network; besides it one
\* add_service for every desired listen port, one add_target for every
\* desired IP and one attach when a network is desired; and no other
\* mutating HCloud call.
CallsOf(op) == SelectSeq(HCloudMutations, LAMBDA c : c.call.op = op)
C20_Created ==
  /\ task.pc = "idle"
  /\ task.branch = "reconcile"
  /\ task.ret = "requeue"
  /\ ListLoadBalancers(lbs0, Desired.name) = {}
C20_CreatePath ==
  C20_Created =>
    /\ AllOk
    /\ HCloudMutations # << >>
    /\ LET c == HCloudMutations[1].call
       IN /\ c.op = "create_load_balancer"
          /\ c.name = Desired.name
          /\ c.algorithm = Desired.algorithm
          /\ c.load_balancer_type = Desired.balancer_type
          /\ c.location = Desired.location
          /\ c.public_interface
          /\ c.services = << >>
          /\ c.targets = << >>
          /\ c.network = None
    /\ Len(CallsOf("create_load_balancer")) = 1
    /\ \A p \in DOMAIN Desired.services :
         Cardinality({j \in DOMAIN HCloudMutations :
                        /\ HCloudMutations[j].call.op = "add_service"
                        /\ HCloudMutations[j].call.service.listen_port = p}) = 1
    /\ Len(CallsOf("add_service")) = Cardinality(DOMAIN Desired.services)
    /\ \A k \in DOMAIN Desired.targets :
         Cardinality({j \in DOMAIN HCloudMutations :
                        /\ HCloudMutations[j].call.op = "add_target"
                        /\ HCloudMutations[j].call.target = IpTarget(Desired.targets[k])}) = 1
    /\ Len(CallsOf("add_target")) = Len(Desired.targets)
    /\ Len(CallsOf("attach")) = (IF Desired.network_name = None THEN 0 ELSE 1)
    /\ \A j \in DOMAIN HCloudMutations :
         HCloudMutations[j].call.op \in
           {"create_load_balancer", "add_service", "add_target", "attach"}
\* a load balancer has been created with an attachment, MaxPort services and
\* MaxIP targets
C20_Witness ==
  /\ C20_Created
  /\ Len(CallsOf("attach")) = 1
  /\ Len(CallsOf("add_service")) = MaxPort
  /\ Len(CallsOf("add_target")) = MaxIP

\* C21 as stated: on a Service whose spec.selector is absent or an empty map,
\* a reconcile pass returns ServiceWithoutSelector from get_nodes_dynamically
\* without listing pods or nodes: no target is derived and no HCloud call is
\* made in that pass.
SelectorEmpty(s) == ~IsSome(s.selector) \/ Unwrap(s.selector) = {}
C21_Original ==
  SelectorEmpty(svc) /\ task.branch = "reconcile" =>
    /\ task.pc \in {"finalizer_add", "idle"}
    /\ task.pc = "idle" /\ failures = 0 => task.ret = "ServiceWithoutSelector"
    /\ Desired.targets = << >>
    /\ HCloudMutations = << >>
\* the same of a Service whose spec.selector is absent
C21_Absent ==
  ~IsSome(svc.selector) /\ task.branch = "reconcile" =>
    /\ task.pc \in {"finalizer_add", "idle"}
    /\ task.pc = "idle" /\ failures = 0 => task.ret = "ServiceWithoutSelector"
    /\ Desired.targets = << >>
    /\ HCloudMutations = << >>
\* a pass on a Service with an empty selector map has listed the pods of the
\* whole namespace and added the node of another workload's pod as a target
C21_EmptyMap ==
  /\ svc.selector = Some({})
  /\ task.branch = "reconcile"
  /\ task.ret = "requeue"
  /\ MaxIP \notin pod_nodes
  /\ \E j \in DOMAIN calls :
       /\ calls[j].ok
       /\ calls[j].call.op = "add_target"
       /\ calls[j].call.target = IpTarget(MaxIP)

\* the sub-step of LoadBalancer::reconcile that issues the call op, or that
\* the task is suspended in at the await pc: 1 get_or_create_hcloud_lb,
\* 2 reconcile_algorithm, 3 reconcile_lb_type, 4 reconcile_network,
\* 5 reconcile_services, 6 reconcile_targets (0: before or after reconcile)
SubStep(op) ==
  CASE op \in {"list_load_balancers", "create_load_balancer"} -> 1
    [] op = "change_algorithm" -> 2
    [] op = "change_type" -> 3
    [] op \in {"list_networks", "detach", "attach"} -> 4
    [] op \in {"update_service", "delete_service", "add_service"} -> 5
    [] op \in {"remove_target", "add_target"} -> 6
    [] OTHER -> 0
\* C22: Sub-step order.  Within one LoadBalancer::reconcile the HCloud calls
\* occur in the order get_or_create, reconcile_algorithm, reconcile_type,
\* reconcile_network, reconcile_services, reconcile_targets: no call of a
\* sub-step follows a call of a later one, nor is issued while the task is
\* in an earlier one, and create, change_algorithm and change_type are issued
\* at most once.  A call that fails is the last call of the pass, which
\* returns the error at once.
C22_SubStepOrder ==
  task.branch = "reconcile" =>
    /\ \A i, j \in DOMAIN HCloudMutations :
         i < j => /\ SubStep(HCloudMutations[i].call.op) <= SubStep(HCloudMutations[j].call.op)
                  /\ SubStep(HCloudMutations[j].call.op) <= 3
                       => HCloudMutations[i].call.op # HCloudMutations[j].call.op
    /\ SubStep(task.pc) > 0 =>
         \A j \in DOMAIN HCloudMutations : SubStep(HCloudMutations[j].call.op) <= SubStep(task.pc)
    /\ \A j \in DOMAIN calls :
         ~calls[j].ok => /\ j = Len(calls)
                         /\ task.pc = "idle"
                         /\ task.ret \in {"HCloudError", "KubeError"}
\* a pass has changed the algorithm and the type, detached and attached a
\* network and has then failed at its first call of reconcile_services
C22_Witness ==
  /\ task.branch = "reconcile"
  /\ task.pc = "idle"
  /\ task.ret = "HCloudError"
  /\ [j \in DOMAIN HCloudMutations |-> HCloudMutations[j].call.op]
       = << "change_algorithm", "change_type", "detach", "attach", "delete_service" >>
  /\ ~calls[Len(calls)].ok

\* the calls of the current (or last) pass that name the listen port p
CallsOn(op, p) ==
  SelectSeq(HCloudMutations,
            LAMBDA c : /\ c.call.op = op
                       /\ IF op = "delete_service" THEN c.call.listen_port = p
                          ELSE c.call.service.listen_port = p)
\* one of the compared fields of the observed service differs from the
\* desired value
ServiceDiffers(l, sv) ==
  \/ sv.destination_port # l.services[sv.listen_port]
  \/ sv.health_check.port # l.services[sv.listen_port]
  \/ sv.health_check.interval # l.check_interval
  \/ sv.health_check.retries # l.retries
  \/ sv.health_check.timeout # l.timeout
  \/ sv.proxyprotocol # l.proxy_mode
  \/ sv.http
  \/ sv.health_check.protocol # "tcp"
\* C23: Diff minimality.  Once reconcile_services has succeeded on the load
\* balancer found, every observed service whose listen port is desired has
\* received one update_service when at least one of destination port, health
\* check port, interval, retries, timeout, proxy protocol flag, presence of
\* an http block and health check protocol differs from the desired value,
\* and no call at all when none differs.
C23_DiffMinimality ==
  ServicesReconciled /\ Cardinality(Named(lbs0)) = 1 =>
    \A j \in DOMAIN Found.services :
      LET sv == Found.services[j]
      IN sv.listen_port \in DOMAIN Desired.services =>
           /\ Len(CallsOn("update_service", sv.listen_port))
                = (IF ServiceDiffers(Desired, sv) THEN 1 ELSE 0)
           /\ CallsOn("delete_service", sv.listen_port) = << >>
           /\ CallsOn("add_service", sv.listen_port) = << >>
\* of two observed services on desired listen ports, the one whose health
\* check is not TCP was updated and the other, which matches, got no call
C23_Witness ==
  /\ ServicesReconciled
  /\ Cardinality(Named(lbs0)) = 1
  /\ Len(Found.services) = 2
  /\ DOMAIN Desired.services = Ports
  /\ \E j \in DOMAIN Found.services :
       /\ Found.services[j].health_check.protocol # "tcp"
       /\ Len(CallsOn("update_service", Found.services[j].listen_port)) = 1
  /\ Len(CallsOf("update_service")) = 1
  /\ AllOk

\* C24: Pass ordering.  Among the calls of one reconcile pass no
\* delete_service or update_service follows an add_service and no
\* remove_target follows an add_target; every add_service is for a desired
\* listen port that no service of the load balancer found listens on.
C24_PassOrdering ==
  task.branch = "reconcile" =>
    /\ \A i, j \in DOMAIN HCloudMutations :
         i < j =>
           /\ HCloudMutations[i].call.op = "add_service"
                => HCloudMutations[j].call.op \notin {"delete_service", "update_service"}
           /\ HCloudMutations[i].call.op = "add_target"
                => HCloudMutations[j].call.op # "remove_target"
    /\ \A j \in DOMAIN HCloudMutations :
         HCloudMutations[j].call.op = "add_service" =>
           /\ HCloudMutations[j].call.service.listen_port \in DOMAIN Desired.services
           /\ \A b \in Named(lbs0) :
                HCloudMutations[j].call.service.listen_port \notin ServicePorts(b)
\* a pass has deleted a service and then added one, removed a target and
\* then added one
C24_Witness ==
  /\ task.branch = "reconcile"
  /\ task.lb_ok
  /\ Named(lbs0) # {}
  /\ \E i, j, k, n \in DOMAIN HCloudMutations :
       /\ i < j /\ j < k /\ k < n
       /\ HCloudMutations[i].call.op = "delete_service"
       /\ HCloudMutations[j].call.op = "add_service"
       /\ HCloudMutations[k].call.op = "remove_target"
       /\ HCloudMutations[n].call.op = "add_target"

\* the targets of the load balancer the pass found (none when it created one)
ObservedTargets == IF Named(lbs0) = {} THEN << >> ELSE Found.targets
\* C25: Target diff exactness.  A pass whose LoadBalancer::reconcile returned
\* Ok has issued remove_target exactly for the observed targets that carry an
\* ip not among the desired targets, and add_target exactly for the desired
\* IPs that no observed target carries, each once and as an IP target; it has
\* issued no call for an IP that is both observed and desired, and none for
\* an observed target without ip.
C25_TargetDiff ==
  task.branch = "reconcile" /\ task.lb_ok /\ Cardinality(Named(lbs0)) <= 1 =>
    LET unwanted == SelectSeq(ObservedTargets,
                              LAMBDA tg : IsSome(tg.ip) /\ Unwrap(tg.ip) \notin Range(Desired.targets))
        missing == SelectSeq(Desired.targets,
                             LAMBDA ip : \A j \in DOMAIN ObservedTargets :
                                           ObservedTargets[j].ip # Some(ip))
        removed == CallsOf("remove_target")
        added == CallsOf("add_target")
    IN /\ [j \in DOMAIN removed |-> removed[j].call.target]
            = [j \in DOMAIN unwanted |-> [type |-> "ip", ip |-> unwanted[j].ip]]
       /\ [j \in DOMAIN added |-> added[j].call.target]
            = [j \in DOMAIN missing |-> [type |-> "ip", ip |-> Some(missing[j])]]
\* the load balancer found had a target without ip, a desired IP target and
\* an IP target that is not desired, and lacked one desired IP: the pass has
\* issued one remove_target and one add_target
C25_Witness ==
  /\ task.branch = "reconcile"
  /\ task.lb_ok
  /\ Cardinality(Named(lbs0)) = 1
  /\ ServerTarget \in Range(ObservedTargets)
  /\ \E ip \in Range(Desired.targets) : IpTarget(ip) \in Range(ObservedTargets)
  /\ Len(CallsOf("remove_target")) = 1
  /\ Len(CallsOf("add_target")) = 1

\* the attachments of the load balancer the pass found (none when it created
\* one)
ObservedPrivateNet == IF Named(lbs0) = {} THEN << >> ELSE Found.private_net
\* the id of the network of the desired name, when there is exactly one
DesiredNetworkId ==
  IF ~IsSome(Desired.network_name) THEN None
  ELSE Some((CHOOSE n \in Networks : n.name = Unwrap(Desired.network_name)).id)
\* the observed attachment is satisfactory
Kept(e) ==
  /\ e.network = DesiredNetworkId
  /\ ~IsSome(Desired.private_ip) \/ e.ip = Desired.private_ip
\* C26: Network decision rule.  A reconcile pass detaches only observed
\* attachments that have a network id and are not satisfactory (network id
\* equal to the resolved desired id and, when a private ip is desired, the
\* same ip), in their order, and attaches at most once, the desired network
\* id with the desired private ip, and only when no observed attachment is
\* satisfactory; once reconcile_network has succeeded it has detached all of
\* those and has attached exactly when no observed attachment is
\* satisfactory and a desired network id exists.  The networks are listed
\* only for a desired network name, so with no network desired and no
\* attachment observed there is neither list nor call.
C26_NetworkRule ==
  /\ task.pc = "list_networks" => IsSome(Desired.network_name)
  /\ task.branch = "reconcile" /\ Cardinality(Named(lbs0)) <= 1 =>
       LET others == SelectSeq(ObservedPrivateNet, LAMBDA e : IsSome(e.network) /\ ~Kept(e))
           detached == CallsOf("detach")
           attached == CallsOf("attach")
           none_kept == \A j \in DOMAIN ObservedPrivateNet : ~Kept(ObservedPrivateNet[j])
       IN /\ Len(detached) <= Len(others)
          /\ \A j \in DOMAIN detached : Some(detached[j].call.network) = others[j].network
          /\ Len(attached) <= 1
          /\ \A j \in DOMAIN attached :
               /\ none_kept
               /\ Some(attached[j].call.network) = DesiredNetworkId
               /\ attached[j].call.requested_ip = Desired.private_ip
          /\ NetworkReconciled =>
               /\ Len(detached) = Len(others)
               /\ Len(attached) = (IF none_kept /\ IsSome(DesiredNetworkId) THEN 1 ELSE 0)
\* the load balancer found was attached to another network and to the desired
\* one with another ip than the desired: the pass has detached both and
\* attached the desired network with the desired ip
C26_Witness ==
  /\ NetworkReconciled
  /\ Cardinality(Named(lbs0)) = 1
  /\ Len(ObservedPrivateNet) = 2
  /\ IsSome(Desired.private_ip)
  /\ Len(CallsOf("detach")) = 2
  /\ Len(CallsOf("attach")) = 1
  /\ AllOk

\* ------------------------------------------------- reconciling the network
\* An eighth specification: the Service carries the finalizer and asks for no
\* network, for one that exists (with or without a private ip), for one that
\* does not exist or for a name two networks have; the project holds one load
\* balancer of the name, with any of the attachments of AnyPrivateNets and
\* neither services nor targets; up to MaxFailures requests fail.
InitNet ==
  /\ \E n \in NetworkChoices \cup {<< Some("net-b"), None >>} :
       svc = [namespace |-> "n", name |-> LbName, exists |-> TRUE,
              type |-> Some("LoadBalancer"),
              annotations |-> Annotations(n[1], n[2]),
              selector |-> Some(AppWeb),
              ports |-> ServicePortsOf({1}),
              finalizers |-> << FINALIZER_NAME >>,
              deletion_timestamp |-> FALSE,
              status |-> << >>]
  /\ pod_nodes = {1}
  /\ \E pn \in AnyPrivateNets :
       lbs = {[id |-> 1, name |-> LbName, algorithm |-> DEFAULT_LB_ALGORITHM,
               load_balancer_type |-> DEFAULT_LB_BALANCER_TYPE,
               location |-> DEFAULT_LB_LOCATION, private_net |-> pn,
               services |-> << >>, targets |-> << >>,
               public_net |-> [ipv4 |-> Some("v4"), ipv6 |-> Some("v6")]]}
  /\ task = Idle
  /\ calls = << >>
  /\ failures = 0
  /\ changed = FALSE
  /\ streak = 0
  /\ lbs0 = lbs
  /\ aborted = FALSE
  /\ other = None
  /\ probe = None
  /\ config = Config

NextNet ==
  \/ RunScheduled
  \/ ListPods
  \/ ListNodes
  \/ ListLbs
  \/ ListNetworksCall
  \/ Detach
  \/ Attach
  \/ AddServiceCall
  \/ AddTargetCall
  \/ PatchStatus

SpecNet == InitNet /\ [][NextNet]_vars

\* exactly one network has the desired name, or no network is desired
Resolvable ==
  IsSome(Desired.network_name) => Cardinality(ListNetworks(Unwrap(Desired.network_name))) = 1
\* C27: Network switch ordering.  In a reconcile pass no detach follows the
\* attach, there is at most one attach, and none after a detach that failed.
\* When the load balancer found has attachments and none is satisfactory
\* (another network, or the desired one with another ip than the desired),
\* a reconcile_network that succeeded has detached every one of them and
\* then attached the desired network once.  When the one observed attachment
\* is on the desired network with the desired private ip, the pass issues
\* neither detach nor attach.
C27_SwitchOrdering ==
  task.branch = "reconcile" /\ Resolvable =>
    /\ \A i, j \in DOMAIN HCloudMutations :
         i < j /\ HCloudMutations[i].call.op = "attach" => HCloudMutations[j].call.op # "detach"
    /\ Len(CallsOf("attach")) <= 1
    /\ (\E j \in DOMAIN calls : calls[j].call.op = "detach" /\ ~calls[j].ok)
         => CallsOf("attach") = << >>
    /\ /\ NetworkReconciled
       /\ ObservedPrivateNet # << >>
       /\ IsSome(DesiredNetworkId)
       /\ \A j \in DOMAIN ObservedPrivateNet : ~Kept(ObservedPrivateNet[j])
       => /\ Len(CallsOf("detach")) = Len(ObservedPrivateNet)
          /\ Len(CallsOf("attach")) = 1
    /\ /\ Len(ObservedPrivateNet) = 1
       /\ IsSome(Desired.private_ip)
       /\ Kept(ObservedPrivateNet[1])
       => CallsOf("detach") = << >> /\ CallsOf("attach") = << >>
\* the load balancer found was attached to another network and to the desired
\* one with another ip; the pass has detached the first, its second detach
\* has failed and it has returned the error without attaching
C27_Witness ==
  /\ task.branch = "reconcile"
  /\ task.pc = "idle"
  /\ task.ret = "HCloudError"
  /\ Len(ObservedPrivateNet) = 2
  /\ IsSome(Desired.private_ip)
  /\ Len(CallsOf("detach")) = 2
  /\ ~calls[Len(calls)].ok
  /\ CallsOf("attach") = << >>

\* C28: Unresolvable network.  When a network name is desired and no network
\* or more than one network has it, get_network returns an error; the pass
\* issues no detach and no attach and no call of reconcile_services or
\* reconcile_targets, it never gets past reconcile_network and it returns an
\* error.
C28_Unresolvable ==
  task.branch = "reconcile" /\ ~Resolvable =>
    /\ ~GetNetwork(Desired).ok
    /\ GetNetwork(Desired).v = "HCloudError"
    /\ \A j \in DOMAIN HCloudMutations : SubStep(HCloudMutations[j].call.op) < 4
    /\ SubStep(task.pc) <= 4
    /\ task.pc \notin {"detach", "attach", "patch_status"}
    /\ ~task.lb_ok
    /\ task.pc = "idle" => task.ret \in {"HCloudError", "KubeError"}
    /\ lbs = lbs0
\* a pass on a Service that asks for a name two networks have has returned
\* the error, with the load balancer found attached to a network and lacking
\* the desired service and target
C28_Witness ==
  /\ task.branch = "reconcile"
  /\ IsSome(Desired.network_name)
  /\ Cardinality(ListNetworks(Unwrap(Desired.network_name))) = 2
  /\ task.pc = "idle"
  /\ task.ret = "HCloudError"
  /\ failures = 0
  /\ ObservedPrivateNet # << >>
  /\ DOMAIN Desired.services # {}
  /\ Desired.targets # << >>
  /\ Found.services = << >>
  /\ calls = << >>

\* ------------------------------------------------ changing the algorithm
\* A ninth specification: the Service has no lb-algorithm annotation or one
\* that names an algorithm; the project holds no load balancer of the name or
\* one with either algorithm; no request fails.  Between two passes the user
\* sets the annotation to another value (once in a behaviour).
AlgorithmChoices == {None} \cup {Some(a) : a \in Algorithms}

InitAlg ==
  /\ \E a \in AlgorithmChoices, finalizers \in {<< >>, << FINALIZER_NAME >>} :
       svc = [namespace |-> "n", name |-> LbName, exists |-> TRUE,
              type |-> Some("LoadBalancer"),
              annotations |-> [Annotations(None, None) EXCEPT !["lb-algorithm"] = a],
              selector |-> Some(AppWeb),
              ports |-> ServicePortsOf({1}),
              finalizers |-> finalizers,
              deletion_timestamp |-> FALSE,
              status |-> << >>]
  /\ pod_nodes \in {{}, {1}}
  /\ \E a \in Algorithms, sv \in {<< >>, << ServiceVariant(1, 1) >>} :
       lbs \in {{}, {[id |-> 1, name |-> LbName, algorithm |-> a,
                      load_balancer_type |-> DEFAULT_LB_BALANCER_TYPE,
                      location |-> DEFAULT_LB_LOCATION, private_net |-> << >>,
                      services |-> sv, targets |-> << >>,
                      public_net |-> [ipv4 |-> Some("v4"), ipv6 |-> Some("v6")]]}}
  /\ task = Idle
  /\ calls = << >>
  /\ failures = MaxFailures
  /\ changed = FALSE
  /\ streak = 0
  /\ lbs0 = lbs
  /\ aborted = FALSE
  /\ other = None
  /\ probe = None
  /\ config = Config

\* the user sets the lb-algorithm annotation of the Service to another value
\* between two passes; the record of the last pass is dropped and the watch
\* event starts a pass
SetAlgorithm ==
  /\ task.pc = "idle"
  /\ svc.exists
  /\ ~changed
  /\ \E a \in AlgorithmChoices :
       /\ a # svc.annotations["lb-algorithm"]
       /\ svc' = [svc EXCEPT !.annotations["lb-algorithm"] = a]
  /\ changed' = TRUE
  /\ streak' = 0
  /\ task' = Idle
  /\ calls' = << >>
  /\ lbs0' = lbs
  /\ UNCHANGED << pod_nodes, lbs, failures, aborted, other, probe, config >>

NextAlg ==
  \/ RunScheduled
  \/ FinalizerAdd
  \/ ListPods
  \/ ListNodes
  \/ ListLbs
  \/ CreateLoadBalancer
  \/ ChangeAlgorithm
  \/ AddServiceCall
  \/ AddTargetCall
  \/ PatchStatus
  \/ SetAlgorithm

SpecAlg == InitAlg /\ [][NextAlg]_vars

\* the pass is past reconcile_algorithm
AlgorithmReconciled ==
  /\ task.branch = "reconcile"
  /\ SubStep(task.pc) > 2 \/ task.pc = "patch_status" \/ task.lb_ok
\* C29: Algorithm change.  A pass that is past reconcile_algorithm has issued
\* one change_algorithm, to the desired algorithm, when the load balancer it
\* found had another algorithm, and none otherwise.  Of the successive
\* successful passes after the lb-algorithm annotation was changed only the
\* first issues change_algorithm, once; after it the load balancer has the
\* desired algorithm, and no later pass issues the call.
C29_AlgorithmChange ==
  /\ AlgorithmReconciled /\ Cardinality(Named(lbs0)) <= 1 =>
       /\ Len(CallsOf("change_algorithm"))
            = (IF Named(lbs0) # {} /\ Found.algorithm # Desired.algorithm THEN 1 ELSE 0)
       /\ \A j \in DOMAIN CallsOf("change_algorithm") :
            CallsOf("change_algorithm")[j].call.algorithm = Desired.algorithm
       /\ TheLb.algorithm = Desired.algorithm
  /\ RepeatedPass => CallsOf("change_algorithm") = << >>
\* the first pass after the user changed the annotation has issued
\* change_algorithm once
C29_Witness ==
  /\ changed
  /\ streak = 1
  /\ task.pc = "idle"
  /\ task.lb_ok
  /\ svc.annotations["lb-algorithm"] = Some("round-robin")
  /\ Len(CallsOf("change_algorithm")) = 1
  /\ TheLb.algorithm = "round-robin"

\* ----------------------------------------------------- resolving the ports
\* A tenth specification: spec.ports of the Service is any list of up to
\* MaxPort entries with distinct (port, protocol), each with or without
\* nodePort and protocol; no load balancer exists and no request fails.
ServicePortEntries ==
  [port : Ports, node_port : {None} \cup {Some(np) : np \in NodePorts},
   protocol : {None, Some("TCP"), Some("UDP")}]
ProtocolOf(e) == IF IsSome(e.protocol) THEN Unwrap(e.protocol) ELSE "TCP"
AnyServicePorts ==
  {ps \in UNION {[1..k -> ServicePortEntries] : k \in 0..MaxPort} :
     \A i, j \in DOMAIN ps :
       i # j => << ps[i].port, ProtocolOf(ps[i]) >> # << ps[j].port, ProtocolOf(ps[j]) >>}

InitPorts ==
  /\ \E ps \in AnyServicePorts :
       svc = [namespace |-> "n", name |-> LbName, exists |-> TRUE,
              type |-> Some("LoadBalancer"),
              annotations |-> Annotations(None, None),
              selector |-> Some(AppWeb),
              ports |-> ps,
              finalizers |-> << >>,
              deletion_timestamp |-> FALSE,
              status |-> << >>]
  /\ pod_nodes = {1}
  /\ lbs = {}
  /\ task = Idle
  /\ calls = << >>
  /\ failures = MaxFailures
  /\ changed = FALSE
  /\ streak = 0
  /\ lbs0 = lbs
  /\ aborted = FALSE
  /\ other = None
  /\ probe = None
  /\ config = Config

NextPorts ==
  \/ RunScheduled
  \/ FinalizerAdd
  \/ ListPods
  \/ ListNodes
  \/ ListLbs
  \/ CreateLoadBalancer
  \/ AddServiceCall
  \/ AddTargetCall
  \/ PatchStatus

SpecPorts == InitPorts /\ [][NextPorts]_vars

\* the entry of spec.ports becomes a service
Eligible(e) == (e.protocol = None \/ e.protocol = Some("TCP")) /\ IsSome(e.node_port)
\* C30: Port resolution.  The services of the desired load balancer that
\* reconcile_load_balancer builds are one entry port.port -> nodePort for
\* every entry of spec.ports whose protocol is TCP or absent and whose
\* nodePort is present, and no other; an entry of another protocol or
\* without nodePort adds nothing and the pass does not fail on it.
C30_PortResolution ==
  task.branch = "reconcile" /\ DesiredBuilt =>
    /\ DOMAIN Desired.services
         = {svc.ports[j].port : j \in {k \in DOMAIN svc.ports : Eligible(svc.ports[k])}}
    /\ \A j \in DOMAIN svc.ports :
         Eligible(svc.ports[j])
           => Desired.services[svc.ports[j].port] = Unwrap(svc.ports[j].node_port)
    /\ task.pc = "idle" => task.ret = "requeue"
\* a pass on a Service with a UDP port and a port without protocol on the
\* same number has returned requeue with the one service of the second
C30_Witness ==
  /\ task.branch = "reconcile"
  /\ task.pc = "idle"
  /\ task.ret = "requeue"
  /\ Len(svc.ports) = 2
  /\ svc.ports[1].protocol = Some("UDP")
  /\ IsSome(svc.ports[1].node_port)
  /\ svc.ports[2].protocol = None
  /\ svc.ports[2].port = svc.ports[1].port
  /\ svc.ports[2].node_port # svc.ports[1].node_port
  /\ Cardinality(DOMAIN Desired.services) = 1
  /\ Len(CallsOf("add_service")) = 1

\* ------------------------------------------- the desired load balancer built
\* An eleventh specification: the operator is started with one of several
\* configurations, the Service carries at most two annotations, each with a
\* value that parses or one that does not, and the resolved nodes have a
\* status or none, addresses or none, and addresses of several types.
\* LoadBalancer::try_from_svc builds the desired load balancer and the node
\* loop of reconcile_load_balancer adds its targets.
MaxNodes == 2

\* an operator started with every default set to another value, and with a
\* default network
OtherConfig ==
  [default_network |-> Some("net-b"),
   dynamic_node_selector |-> TRUE,
   default_lb_retries |-> 4,
   default_lb_timeout |-> 11,
   default_lb_interval |-> 16,
   default_lb_location |-> "nbg1",
   default_balancer_type |-> "lb31",
   default_lb_algorithm |-> "round-robin",
   default_lb_proxy_mode_enabled |-> TRUE,
   ipv6_ingress |-> TRUE]
\* the third with a default algorithm that LBAlgorithm::from_str does not know
AnyConfigs == {Config, OtherConfig, [Config EXCEPT !.default_lb_algorithm = "random"]}

\* the values an annotation takes when it is set
AnnotationValues(k) ==
  CASE k = "lb-retries" -> {<< "5" >>, << "5", "x" >>}
    [] k = "lb-timeout" -> {<< "2", "0" >>, << >>}
    [] k = "lb-check-interval" -> {<< "+", "7" >>, << "-" >>}
    [] k = "lb-proxy-mode" -> {"true", "false", "yes"}
    [] k = "lb-algorithm" -> {"round-robin", "least-connections", "random"}
    [] k = "lb-network" -> {"net-a"}
    [] k = "balancer" -> {"custom"}
    [] k = "lb-location" -> {"fsn1"}
    [] k = "balancer-type" -> {"lb21"}
    [] k = "lb-private-ip" -> {"10.0.5.7"}
\* annotations with at most two keys set
BuildAnnotations ==
  UNION {UNION {{[k \in AnnotationKeys |-> IF k = k1 THEN v1 ELSE IF k = k2 THEN v2 ELSE None] :
                   v1 \in {None} \cup {Some(v) : v \in AnnotationValues(k1)},
                   v2 \in {None} \cup {Some(v) : v \in AnnotationValues(k2)}} :
                k2 \in AnnotationKeys \ {k1}} :
         k1 \in AnnotationKeys}

\* node i as the node list may return it: without status, without addresses,
\* with addresses of three types, with an ExternalIP only, or with an
\* InternalIP and a Hostname only
NodeShapes(i) ==
  {[name |-> i, status |-> None],
   [name |-> i, status |-> Some([addresses |-> None])],
   Node(i),
   [name |-> i, status |-> Some([addresses |-> Some(<< [type |-> "ExternalIP", address |-> i] >>)])],
   [name |-> i, status |-> Some([addresses |->
      Some(<< [type |-> "Hostname", address |-> 0],
              [type |-> "InternalIP", address |-> InternalIpOf(i)] >>)])]}
\* the lists of up to MaxNodes resolved nodes
AnyNodes ==
  {nodes \in UNION {[1..k -> UNION {NodeShapes(i) : i \in 1..MaxNodes}] : k \in 0..MaxNodes} :
     \A j \in DOMAIN nodes : nodes[j].name = j}

InitBuild ==
  /\ config \in AnyConfigs
  /\ \E a \in BuildAnnotations :
       svc = [namespace |-> "n", name |-> LbName, exists |-> TRUE, type |-> Some("LoadBalancer"),
              annotations |-> a,
              selector |-> Some(AppWeb),
              ports |-> ServicePortsOf({1}),
              finalizers |-> << FINALIZER_NAME >>,
              deletion_timestamp |-> FALSE,
              status |-> << >>]
  /\ AtRest
  /\ \E nodes \in AnyNodes : probe = [nodes |-> nodes, lb |-> None, built |-> None]

\* reconcile_service: LoadBalancer::try_from_svc(&svc, &context)
TryFromSvcCall ==
  /\ probe.lb = None
  /\ probe' = [probe EXCEPT !.lb = Some(TryFromSvc(svc))]
  /\ UNCHANGED controller

\* reconcile_load_balancer: node_ip_type and the loop over the resolved nodes
NodeLoop ==
  /\ probe.lb # None
  /\ Unwrap(probe.lb).ok
  /\ probe.built = None
  /\ LET l == Unwrap(probe.lb).v
     IN probe' = [probe EXCEPT !.built = Some(AddNodeTargets(l, probe.nodes, 1, NodeIpType(l)))]
  /\ UNCHANGED controller

NextBuild ==
  \/ TryFromSvcCall
  \/ NodeLoop

SpecBuild == InitBuild /\ [][NextBuild]_vars

\* the addresses of type `type` of the nodes that have a status with addresses
AddressesOfType(nodes, type) ==
  UNION {{a.address : a \in {b \in Range(Unwrap(Unwrap(nodes[j].status).addresses)) : b.type = type}} :
           j \in {i \in DOMAIN nodes : /\ nodes[i].status # None
                                       /\ Unwrap(nodes[i].status).addresses # None}}
\* the Service names a network, or the operator has a default network
Networked == IsSome(svc.annotations["lb-network"]) \/ IsSome(config.default_network)

\* C31: once the node loop of reconcile_load_balancer has run, the targets of
\* the desired load balancer are exactly the InternalIP addresses of the
\* resolved nodes when the Service names a network or the operator has a
\* default network, and exactly their ExternalIP addresses otherwise; Hostname
\* addresses and nodes without status or without addresses give no target.
C31_TargetIpType ==
  IsSome(probe.built) =>
    /\ Networked = IsSome(Unwrap(probe.built).network_name)
    /\ Range(Unwrap(probe.built).targets)
         = AddressesOfType(probe.nodes, IF Networked THEN "InternalIP" ELSE "ExternalIP")
    /\ 0 \notin Range(Unwrap(probe.built).targets)

\* the network comes from the default network alone; of two resolved nodes
\* the first has no status and the second addresses of three types, and the
\* InternalIP of the second is the only target
C31_Witness ==
  /\ IsSome(probe.built)
  /\ svc.annotations["lb-network"] = None
  /\ IsSome(config.default_network)
  /\ Len(probe.nodes) = 2
  /\ probe.nodes[1].status = None
  /\ probe.nodes[2] = Node(2)
  /\ Unwrap(probe.built).targets = << InternalIpOf(2) >>

\* ------------------------------------------------------- the status patch
\* A twelfth specification: the operator runs with ipv6_ingress disabled or
\* enabled; the Service is a LoadBalancer Service that is not being deleted,
\* with the default algorithm or round-robin; the project holds no load
\* balancer of its name or one with or without a public IPv4 and a public
\* IPv6 address, and with the service of the Service as the controller
\* writes it; up to MaxFailures requests fail.
InitIngress ==
  /\ config \in {Config, [Config EXCEPT !.ipv6_ingress = TRUE]}
  /\ \E g \in {None, Some("round-robin")}, finalizers \in {<< >>, << FINALIZER_NAME >>} :
       svc = [namespace |-> "n", name |-> LbName, exists |-> TRUE, type |-> Some("LoadBalancer"),
              annotations |-> [Annotations(None, None) EXCEPT !["lb-algorithm"] = g],
              selector |-> Some(AppWeb),
              ports |-> ServicePortsOf({1}),
              finalizers |-> finalizers,
              deletion_timestamp |-> FALSE,
              status |-> << >>]
  /\ pod_nodes = {1}
  /\ lbs \in {{}} \cup {{[FoundLb(ipv4) EXCEPT !.public_net.ipv6 = ipv6]} :
                          ipv4 \in {None, Some("v4-found")}, ipv6 \in {None, Some("v6-found")}}
  /\ task = Idle
  /\ calls = << >>
  /\ failures = 0
  /\ changed = FALSE
  /\ streak = 0
  /\ lbs0 = lbs
  /\ aborted = FALSE
  /\ other = None
  /\ probe = None

NextIngress ==
  \/ RunScheduled
  \/ FinalizerAdd
  \/ ListPods
  \/ ListNodes
  \/ ListLbs
  \/ CreateLoadBalancer
  \/ ChangeAlgorithm
  \/ ChangeType
  \/ Detach
  \/ DeleteService
  \/ AddServiceCall
  \/ RemoveTarget
  \/ AddTargetCall
  \/ PatchStatus

SpecIngress == InitIngress /\ [][NextIngress]_vars

\* the public addresses of the load balancer the pass has fetched, or of the
\* one it has created when it found none
PublicNetAtStart ==
  IF Named(lbs0) # {} THEN Found.public_net ELSE TheLb.public_net
\* the addresses to publish: the IPv4 when there is one, then the IPv6 when
\* ipv6_ingress is enabled and there is one
PublishedIps ==
  (IF IsSome(PublicNetAtStart.ipv4) THEN << Unwrap(PublicNetAtStart.ipv4) >> ELSE << >>)
  \o (IF config.ipv6_ingress /\ IsSome(PublicNetAtStart.ipv6)
      THEN << Unwrap(PublicNetAtStart.ipv6) >> ELSE << >>)
PatchStatusCalls == {j \in DOMAIN calls : calls[j].call.op = "patch_status"}

\* the status that publishes the addresses
PublishedStatus == [j \in DOMAIN PublishedIps |-> [ip |-> PublishedIps[j], ip_mode |-> "VIP"]]
C32_Issued ==
  /\ \A j \in PatchStatusCalls :
       /\ task.lb_ok
       /\ j = Len(calls)
       /\ \A i \in 1..(j - 1) : calls[i].ok
       /\ task.branch = "reconcile"
  /\ task.branch = "reconcile" /\ task.pc = "idle" /\ task.lb_ok =>
       /\ PatchStatusCalls # {} <=> PublishedIps # << >>
       /\ task.ret = "requeue" => svc.status = PublishedStatus
  /\ task.branch = "reconcile" /\ task.pc = "patch_status" => PublishedIps # << >>
C32_Written ==
  svc'.status # svc.status =>
    /\ task.pc = "patch_status"
    /\ task.lb_ok
    /\ svc'.status = PublishedStatus
    /\ calls' = Append(calls, [call |-> [op |-> "patch_status"], ok |-> TRUE])
\* C32: Status patch.  A pass issues the status patch only after
\* LoadBalancer::reconcile returned Ok with every call of the pass accepted,
\* and as its last call; a pass whose reconcile returned Ok issues it iff the
\* load balancer fetched or created at the start of reconcile has a public
\* IPv4, or a public IPv6 with ipv6_ingress enabled; the status is written by
\* that patch alone and holds one entry for the IPv4 when present, then one
\* for the IPv6 when enabled and present, each with ip_mode "VIP".
C32_StatusPatch == [](C32_Issued) /\ [][C32_Written]_vars

\* with ipv6_ingress enabled, a pass that found a load balancer without
\* public IPv4 has published its IPv6 alone
C32_Witness ==
  /\ config.ipv6_ingress
  /\ task.pc = "idle"
  /\ task.ret = "requeue"
  /\ IssuedOk("patch_status")
  /\ Named(lbs0) # {}
  /\ svc.status = << [ip |-> "v6-found", ip_mode |-> "VIP"] >>
\* a pass has converged a load balancer without any address to publish and
\* asks to be requeued without a status patch
C32_NoIngress ==
  /\ task.pc = "idle"
  /\ task.ret = "requeue"
  /\ task.lb_ok
  /\ Len(calls) > 0
  /\ PatchStatusCalls = {}

\* the integers the decimal strings of AnnotationValues denote; the other
\* strings denote none
IntegerOf == (<< "5" >> :> 5) @@ (<< "2", "0" >> :> 20) @@ (<< "+", "7" >> :> 7)
\* the annotation k is set to a string that is no integer, no boolean
NoInteger(k) == IsSome(svc.annotations[k]) /\ Unwrap(svc.annotations[k]) \notin DOMAIN IntegerOf
NoBoolean(k) == IsSome(svc.annotations[k]) /\ Unwrap(svc.annotations[k]) \notin {"true", "false"}
\* the algorithm string: the annotation, else the operator default
AlgorithmString ==
  IF IsSome(svc.annotations["lb-algorithm"]) THEN Unwrap(svc.annotations["lb-algorithm"])
  ELSE config.default_lb_algorithm
UnknownAlgorithm == AlgorithmString \notin {"round-robin", "least-connections"}
Unparsable ==
  \/ NoInteger("lb-retries")
  \/ NoInteger("lb-timeout")
  \/ NoInteger("lb-check-interval")
  \/ NoBoolean("lb-proxy-mode")
\* the value of the annotation k when it is set, else the default
Preferred(k, default) ==
  IF svc.annotations[k] = None THEN default
  ELSE IF k \in {"lb-retries", "lb-timeout", "lb-check-interval"}
       THEN IntegerOf[Unwrap(svc.annotations[k])]
  ELSE IF k = "lb-proxy-mode" THEN Unwrap(svc.annotations[k]) = "true"
  ELSE Unwrap(svc.annotations[k])
Built == Unwrap(probe.lb)

\* C33: Construction precedence.  try_from_svc returns a load balancer iff
\* every integer and boolean annotation that is set parses and the algorithm
\* string (annotation, else operator default) is round-robin or
\* least-connections; each of its nine fields is then the value of the
\* annotation when set and the operator default otherwise (the Service name
\* for name, no network without default network).  Otherwise it returns an
\* error: a parse error when an annotation does not parse, and
\* UnknownLBAlgorithm when only the algorithm string is at fault.
C33_Precedence ==
  IsSome(probe.lb) =>
    /\ Built.ok <=> ~Unparsable /\ ~UnknownAlgorithm
    /\ Built.ok =>
         /\ Built.v.retries = Preferred("lb-retries", config.default_lb_retries)
         /\ Built.v.timeout = Preferred("lb-timeout", config.default_lb_timeout)
         /\ Built.v.check_interval = Preferred("lb-check-interval", config.default_lb_interval)
         /\ Built.v.proxy_mode = Preferred("lb-proxy-mode", config.default_lb_proxy_mode_enabled)
         /\ Built.v.location = Preferred("lb-location", config.default_lb_location)
         /\ Built.v.balancer_type = Preferred("balancer-type", config.default_balancer_type)
         /\ Built.v.algorithm = Preferred("lb-algorithm", config.default_lb_algorithm)
         /\ Built.v.network_name
              = (IF svc.annotations["lb-network"] = None THEN config.default_network
                 ELSE svc.annotations["lb-network"])
         /\ Built.v.name = Preferred("balancer", svc.name)
    /\ ~Built.ok =>
         /\ Unparsable => Built.err \in {"PaseIntError", "PaseBoolError"}
         /\ ~Unparsable => Built.err = "UnknownLBAlgorithm"
         /\ Built.err = "PaseIntError" =>
              NoInteger("lb-retries") \/ NoInteger("lb-timeout") \/ NoInteger("lb-check-interval")
         /\ Built.err = "PaseBoolError" => NoBoolean("lb-proxy-mode")

\* under an operator with every default overridden, a Service that sets the
\* retries and the location alone gets them from its annotations and the
\* rest, the network included, from the defaults
C33_Witness ==
  /\ IsSome(probe.lb)
  /\ config = OtherConfig
  /\ svc.annotations["lb-retries"] = Some(<< "5" >>)
  /\ svc.annotations["lb-location"] = Some("fsn1")
  /\ Built.ok
  /\ Built.v.retries = 5
  /\ Built.v.timeout = 11
  /\ Built.v.location = "fsn1"
  /\ Built.v.network_name = Some("net-b")
\* the retries annotation does not parse
C33_ParseError ==
  /\ IsSome(probe.lb)
  /\ svc.annotations["lb-retries"] = Some(<< "5", "x" >>)
  /\ Built = [ok |-> FALSE, err |-> "PaseIntError"]
\* the default algorithm of the operator is unknown and no annotation names one
C33_UnknownDefault ==
  /\ IsSome(probe.lb)
  /\ svc.annotations["lb-algorithm"] = None
  /\ Built = [ok |-> FALSE, err |-> "UnknownLBAlgorithm"]

\* the Service is a LoadBalancer Service on which try_from_svc fails
Misconfigured == SvcType(svc) = "LoadBalancer" /\ ~TryFromSvc(svc).ok
C34_AtRest ==
  Misconfigured =>
    /\ task.pc = "idle"
    /\ task.branch = "none"
    /\ task.ret \in {"none", TryFromSvc(svc).err}
    /\ task.ret \in {"none", "PaseIntError", "PaseBoolError", "UnknownLBAlgorithm"}
    /\ task.lb = None
    /\ calls = << >>
    /\ svc.status = << >>
C34_NoEffect ==
  Misconfigured =>
    /\ svc' = svc
    /\ lbs' = lbs
    /\ calls' = << >>
    /\ task'.ret = TryFromSvc(svc).err
\* C34: Misconfiguration precedes every effect.  Every pass on a LoadBalancer
\* Service on which try_from_svc fails returns the error of try_from_svc at
\* once, with or without deletionTimestamp and with or without finalizer: it
\* takes neither the deletion nor the reconcile branch, awaits nothing, issues
\* no call, and leaves the Service (finalizers and status) and the HCloud
\* project as they were.
C34_Misconfiguration == [](C34_AtRest) /\ [][C34_NoEffect]_vars

\* a Service under deletion that carries the finalizer and an unknown
\* algorithm, with a load balancer of its name in the project: the pass has
\* returned UnknownLBAlgorithm and the finalizer is still there
C34_Witness ==
  /\ svc.deletion_timestamp
  /\ HasFinalizer(svc)
  /\ svc.annotations["lb-algorithm"] = Some("random")
  /\ Named(lbs) # {}
  /\ task.pc = "idle"
  /\ task.ret = "UnknownLBAlgorithm"

\* the calls and the awaits of the reconcile branch that build something
ConstructiveOps ==
  {"create_load_balancer", "add_service", "add_target", "attach", "finalizer_add", "patch_status"}
ConstructivePcs ==
  {"finalizer_add", "list_pods", "list_nodes", "create_load_balancer", "add_service",
   "add_target", "attach", "patch_status"}
C35_Destructive ==
  svc.deletion_timestamp =>
    /\ \A j \in DOMAIN calls : calls[j].call.op \notin ConstructiveOps
    /\ task.pc \notin ConstructivePcs
    /\ task.branch # "reconcile"
    /\ svc.status = << >>
C35_NothingBuilt ==
  svc.deletion_timestamp =>
    /\ {l.id : l \in lbs'} \subseteq {l.id : l \in lbs}
    /\ \A l \in lbs' : /\ Len(l.services) <= Len(Lb(lbs, l.id).services)
                      /\ Len(l.targets) <= Len(Lb(lbs, l.id).targets)
                      /\ l.private_net = Lb(lbs, l.id).private_net
    /\ Range(svc'.finalizers) \subseteq Range(svc.finalizers)
\* C35: The deletion branch is purely destructive.  While the Service carries
\* a deletionTimestamp no pass issues create_load_balancer, add_service,
\* add_target, attach, a finalizer add or a status patch, none lists pods or
\* nodes or takes the reconcile branch, and no step adds a load balancer, a
\* service, a target, a network attachment or a finalizer; a deleting Service
\* without load balancer leaves the project without one.
C35_DeletionBranch == [](C35_Destructive) /\ [][C35_NothingBuilt]_vars

\* a deleting LoadBalancer Service without finalizer whose name no load
\* balancer carries: the pass has looked for one, removed the (absent)
\* finalizer and waits for a change, and the project is still empty
C35_Witness ==
  /\ svc.deletion_timestamp
  /\ ~HasFinalizer(svc)
  /\ task.branch = "cleanup"
  /\ task.pc = "idle"
  /\ task.ret = "await_change"
  /\ IssuedOk("finalizer_remove")
  /\ lbs0 = {}
  /\ lbs = {}

====
